---- MODULE Spec2Model ----
(***************************************************************************)
(* The controller's Scheduler (package controller) as a state machine:     *)
(* the fleet state guarded by Scheduler.mu, the rotation pipeline          *)
(* (performRotation) run by the main goroutine at startup and by a fresh   *)
(* goroutine per due tick, the staggered stop/start goroutines, the boost  *)
(* goroutines of the adaptive loop, the transport's connect/disconnect     *)
(* handlers and the shutdown path of Run.                                  *)
(*                                                                         *)
(* Time is counted in ticker periods (5 s, Run's time.NewTicker).  Code    *)
(* that does not sleep runs in zero time but interleaves freely with the   *)
(* other goroutines; the clock advances only when every goroutine is       *)
(* blocked in time.Sleep or in Run's select.  A section of code between    *)
(* s.mu.Lock()/RLock() and the matching Unlock is one atomic step.         *)
(***************************************************************************)
EXTENDS Integers, Sequences, FiniteSets, TLC

VARIABLES
    now,            \* wall clock, in ticker periods
    tickDue,        \* ticker.C holds a tick that Run has not yet handled
    exited,         \* Run has handled ctx.Done() and returned
    clients,        \* Server.clients: ids with a registered connection
    Phase,          \* SchedulerState.Phase
    ActiveAgents,   \* SchedulerState.ActiveAgents: which map object it points to
    NextRotation,   \* SchedulerState.NextRotation
    CurrentTotalBW, \* SchedulerState.CurrentTotalBW
    LastRotation,   \* SchedulerState.LastRotation
    RotationCount,  \* SchedulerState.RotationCount
    maps,           \* the map[string]*AgentAllocation objects, one per rotation (0: NewScheduler's)
    agentStatus,    \* Scheduler.agentStatus
    rot,            \* the performRotation executions: program counter and locals
    tasks,          \* goroutines spawned by rampDownAgents / rampUpAgents
    boosts,         \* goroutines running boostAgentBandwidth
    snap,           \* a SchedulerState value returned by GetState and held by its caller
    call            \* a call of a package bandwidth function: arguments, locals, result

vars == <<now, tickDue, exited, clients, Phase, ActiveAgents, NextRotation,
          CurrentTotalBW, LastRotation, RotationCount, maps, agentStatus,
          rot, tasks, boosts, snap, call>>

fleet == <<Phase, ActiveAgents, NextRotation, CurrentTotalBW, LastRotation,
           RotationCount, maps>>

----------------------------------------------------------------------------
(* Bounds of the exploration *)

MaxTime == 9

MaxSnapTime == 7

MaxCallTime == 0

----------------------------------------------------------------------------
(* Configuration (Config, one valid instance) and the code's constants.   *)
(* Durations are in ticker periods of 5 s.                                 *)

Agents == {"a1", "a2"}

MaxBandwidth == [a \in Agents |-> IF a = "a1" THEN 1000 ELSE 2000]

URLs == {"u1"}

MinConcurrent == 1

MaxConcurrent == 2

RotationIntervalMin == 6

RotationIntervalMax == 7

RampDownDuration == 1

RampUpDuration == 1

ServerBandwidthMin == 400

ServerBandwidthMax == 1200

TolerancePct == 15

DeficitPercentMin == 20

BoostMin == 100

BoostMax == 500

BoostMinRemaining == 6

StartBuffer == 12

InitialLastUsed == 0 - 17280

(* Values the random allocator and the agents' metrics reports are drawn from *)
BWChoices == {ServerBandwidthMax}

BWObs == {300}

----------------------------------------------------------------------------
(* Values *)

NoCmd == <<>>

(* The mark of an object owned by the holder of a GetState value *)
Own == 0 - 1

NoSnap ==
    [taken |-> FALSE, Phase |-> "", NextRotation |-> 0, CurrentTotalBW |-> 0,
     LastRotation |-> 0, RotationCount |-> 0, mapRef |-> Own, keys |-> {},
     ref |-> <<>>, val |-> <<>>]

(* No call of a package bandwidth function is being followed *)
NoCall == [fn |-> "none"]

Min(a, b) == IF a < b THEN a ELSE b

Clamp64(value, lo, hi) == IF value < lo THEN lo ELSE IF value > hi THEN hi ELSE value

RECURSIVE SumOver(_, _)
SumOver(f, S) ==
    IF S = {} THEN 0
    ELSE LET x == CHOOSE y \in S : TRUE IN f[x] + SumOver(f, S \ {x})

(* The keys of the map SchedulerState.ActiveAgents points to *)
ActiveKeys == maps[ActiveAgents].keys

(* The allocation SchedulerState.ActiveAgents[a] points to *)
ActiveAlloc(a) == maps[ActiveAgents].objs[a]

(* What the garbage collector leaves of the map objects.  A map is live   *)
(* while SchedulerState.ActiveAgents points to it, while it is the local    *)
(* "allocations" of a rotation that has not returned, while a start         *)
(* goroutine holds one of its allocations, or while a value returned by     *)
(* GetState points into it; an allocation is live while its key is in a     *)
(* live map or something holds a pointer to it.                             *)
Held(tk, x, a) ==
    \/ \E t \in tk : t.kind = "start" /\ t.r = x /\ t.agent = a
    \/ a \in DOMAIN snap.ref /\ snap.ref[a] = x

Reachable(m, active, rt, tk) ==
    [x \in {y \in DOMAIN m :
               \/ y = active
               \/ y \in DOMAIN rt /\ rt[y].pc # "done"
               \/ y = snap.mapRef
               \/ \E a \in DOMAIN m[y].objs : Held(tk, y, a)} |->
        [keys |-> m[x].keys,
         objs |-> [a \in {b \in DOMAIN m[x].objs : b \in m[x].keys \/ Held(tk, x, b)}
                      |-> m[x].objs[a]]]]

NewAllocation(a, bw) ==
    [AgentID |-> a, AllocatedBW |-> bw, StartTime |-> now, PlannedDuration |-> 0,
     CurrentCommand |-> NoCmd, URL |-> ""]

----------------------------------------------------------------------------
(* NewScheduler; Constructed is the scheduler and its surroundings, Init adds *)
(* that no call of the calculator is being followed                         *)

Constructed ==
    /\ now = 0
    /\ tickDue = FALSE
    /\ exited = FALSE
    /\ clients = {}
    /\ Phase = "idle"
    /\ ActiveAgents = 0
    /\ NextRotation = 0
    /\ CurrentTotalBW = 0
    /\ LastRotation = 0
    /\ RotationCount = 0
    /\ maps = (0 :> [keys |-> {}, objs |-> <<>>])
    /\ agentStatus = [a \in Agents |-> [LastUsed |-> InitialLastUsed, UseCount |-> 0]]
    /\ rot = <<[pc |-> "begin", wake |-> 0, toStop |-> {}]>>
    /\ tasks = {}
    /\ boosts = {}
    /\ snap = NoSnap

Init ==
    /\ Constructed
    /\ call = NoCall

----------------------------------------------------------------------------
(* Server.SendToAgent: "not connected" without a registered client, else   *)
(* the message is put on the client's SendChan.  The channel holds 256      *)
(* messages and writeMessages drains it; the few commands of a run never    *)
(* fill it, so the "send channel full" branch is not taken here.            *)

SendToAgent(agentID) == IF agentID \in clients THEN "ok" ELSE "notconnected"

----------------------------------------------------------------------------
(* Transport handlers *)

(* A disconnect handler that clears the whole active map *)
OnAgentDisconnectAll(agentID) ==
    /\ maps' = Reachable([maps EXCEPT ![ActiveAgents].keys = {}], ActiveAgents, rot, tasks)
    /\ UNCHANGED <<Phase, ActiveAgents, NextRotation, CurrentTotalBW,
                   LastRotation, RotationCount, agentStatus>>

(* Scheduler.OnAgentDisconnect: delete(s.state.ActiveAgents, agentID) under s.mu.Lock *)
OnAgentDisconnect(agentID) ==
    /\ maps' = Reachable([maps EXCEPT ![ActiveAgents].keys = @ \ {agentID}],
                         ActiveAgents, rot, tasks)
    /\ UNCHANGED <<Phase, ActiveAgents, NextRotation, CurrentTotalBW,
                   LastRotation, RotationCount, agentStatus>>

(* Server.handleRegister followed by Scheduler.OnAgentConnect (which only logs) *)
HandleRegister(a) ==
    /\ a \notin clients
    /\ clients' = clients \cup {a}
    /\ UNCHANGED <<now, tickDue, exited, fleet, agentStatus, rot, tasks, boosts, snap, call>>

(* The deferred cleanup of Server.handleClient when the connection's read fails *)
HandleClientClose(a) ==
    /\ a \in clients
    /\ clients' = clients \ {a}
    /\ OnAgentDisconnect(a)
    /\ UNCHANGED <<now, tickDue, exited, rot, tasks, boosts, snap, call>>

----------------------------------------------------------------------------
(* bandwidth.CalculateStagger, in whole ticker periods: the i-th of count   *)
(* delays is i*base plus a jitter within a quarter of base, not below 0,    *)
(* where base = totalDuration/count.                                        *)

StaggerLo(i, count, totalDuration) ==
    IF 4 * i - 1 < 0 THEN 0 ELSE ((4 * i - 1) * totalDuration) \div (4 * count)

StaggerHi(i, count, totalDuration) == ((4 * i + 1) * totalDuration) \div (4 * count)

(* The delays a batch S can get: the range over a map or a slice built from *)
(* one gives the ids any order.                                             *)
CalculateStagger(S, totalDuration) ==
    LET count == Cardinality(S)
        orders == {o \in [S -> 0 .. count - 1] : \A x, y \in S : x # y => o[x] # o[y]}
    IN  {d \in [S -> 0 .. totalDuration] :
            \E o \in orders : \A a \in S :
                /\ d[a] >= StaggerLo(o[a], count, totalDuration)
                /\ d[a] <= StaggerHi(o[a], count, totalDuration)}

----------------------------------------------------------------------------
(* The rotation pipeline, Scheduler.performRotation *)

SetPc(r, pc) == [rot EXCEPT ![r].pc = pc]

(* s.mu.Lock(); s.state.Phase = "ramping_down"; s.mu.Unlock() *)
RotBegin(r) ==
    /\ rot[r].pc = "begin"
    /\ Phase' = "ramping_down"
    /\ rot' = SetPc(r, "select")
    /\ UNCHANGED <<now, tickDue, exited, clients, ActiveAgents, NextRotation,
                   CurrentTotalBW, LastRotation, RotationCount, maps, agentStatus,
                   tasks, boosts, snap, call>>

(* Scheduler.calculateConcurrency: bandwidth.CalculateConcurrency clamps to [min, max] *)
calculateConcurrency == MinConcurrent .. MaxConcurrent

(* A selection that takes every configured agent for available *)
selectAgentsAny(count) ==
    {S \in SUBSET Agents : Cardinality(S) = Min(count, Cardinality(Agents))}

(* Scheduler.selectAgents: the configured agents that are connected, and of *)
(* them count chosen by weight without replacement; every weight is > 0.    *)
selectAgents(count) ==
    LET available == {a \in Agents : a \in clients}
    IN  IF available = {} THEN {{}}
        ELSE {S \in SUBSET available :
                Cardinality(S) = Min(count, Cardinality(available))}

(* An allocation that stores the allocator's share as it comes *)
allocateBandwidthUncapped(selected) ==
    {[keys |-> selected,
      objs |-> [a \in selected |-> NewAllocation(a, bw[a])]] :
        bw \in [selected -> BWChoices]}

(* Scheduler.allocateBandwidth: a fresh map with a fresh allocation per     *)
(* selected agent, the allocator's share capped by the agent's capacity.    *)
allocateBandwidth(selected) ==
    {[keys |-> selected,
      objs |-> [a \in selected |-> NewAllocation(a, Min(bw[a], MaxBandwidth[a]))]] :
        bw \in [selected -> BWChoices]}

(* A stop-set that takes every active id, kept or not *)
findAgentsToStopAll(newAllocations) == ActiveKeys

findAgentsToStop(newAllocations) ==
    {agentID \in ActiveKeys : agentID \notin newAllocations.keys}

findAgentsToStart(newAllocations) ==
    {agentID \in newAllocations.keys : agentID \notin ActiveKeys}

StopTask(a, delay) == [kind |-> "stop", agent |-> a, r |-> 0, wake |-> now + delay]

StartTask(r, a, delay) == [kind |-> "start", agent |-> a, r |-> r, wake |-> now + delay]

(* A ramp-down that spawns the stop goroutines and returns without waiting *)
rampDownAgentsNoWait(r, toStop) ==
    /\ rot' = [rot EXCEPT ![r].pc = "rampUp", ![r].toStop = toStop]
    /\ \E delays \in CalculateStagger(toStop, RampDownDuration) :
          tasks' = tasks \cup {StopTask(a, delays[a]) : a \in toStop}

(* Scheduler.rampDownAgents: one goroutine per id, then                     *)
(* time.Sleep(RampDownDuration); for no ids it returns at once.             *)
rampDownAgents(r, toStop) ==
    IF toStop = {}
    THEN /\ rot' = [rot EXCEPT ![r].pc = "rampUp"]
         /\ tasks' = tasks
    ELSE /\ rot' = [rot EXCEPT ![r].pc = "sleep",
                               ![r].wake = now + RampDownDuration,
                               ![r].toStop = toStop]
         /\ \E delays \in CalculateStagger(toStop, RampDownDuration) :
               tasks' = tasks \cup {StopTask(a, delays[a]) : a \in toStop}

(* Phases 1 and 2 of performRotation up to the ramp-down sleep.  The        *)
(* selection and the allocation read the connection table and build local  *)
(* objects, so they are taken together with the locked section that next    *)
(* reads the fleet state (toStop).                                          *)
RotSelect(r) ==
    /\ rot[r].pc = "select"
    /\ \E count \in calculateConcurrency :
         \E selected \in selectAgents(count) :
           \E allocations \in allocateBandwidth(selected) :
              /\ maps' = (r :> allocations) @@ maps
              /\ rampDownAgents(r, findAgentsToStop(allocations))
    /\ UNCHANGED <<now, tickDue, exited, clients, Phase, ActiveAgents, NextRotation,
                   CurrentTotalBW, LastRotation, RotationCount, agentStatus,
                   boosts, snap, call>>

(* s.mu.Lock(); s.state.Phase = "ramping_up"; s.mu.Unlock(), reached at once *)
(* or when the ramp-down sleep has elapsed                                   *)
RotRampUp(r) ==
    /\ \/ rot[r].pc = "rampUp"
       \/ rot[r].pc = "sleep" /\ rot[r].wake <= now
    /\ Phase' = "ramping_up"
    /\ rot' = SetPc(r, "findStart")
    /\ UNCHANGED <<now, tickDue, exited, clients, ActiveAgents, NextRotation,
                   CurrentTotalBW, LastRotation, RotationCount, maps, agentStatus,
                   tasks, boosts, snap, call>>

(* Scheduler.rampUpAgents: one goroutine per allocation, no wait *)
rampUpAgents(r, toStart) ==
    \E delays \in CalculateStagger(toStart, RampUpDuration) :
        tasks' = tasks \cup {StartTask(r, a, delays[a]) : a \in toStart}

(* toStart, read without the lock, then rampUpAgents.  The wait is over and *)
(* toStop is not used again.                                                *)
RotFindStart(r) ==
    /\ rot[r].pc = "findStart"
    /\ rampUpAgents(r, findAgentsToStart(maps[r]))
    /\ rot' = [rot EXCEPT ![r] = [pc |-> "commit", wake |-> 0, toStop |-> {}]]
    /\ UNCHANGED <<now, tickDue, exited, clients, fleet, agentStatus, boosts, snap, call>>

(* A commit that returns early when the rotation selected no agent *)
CommitUnlessEmpty(r) ==
    IF maps[r].keys = {}
    THEN UNCHANGED <<Phase, ActiveAgents, LastRotation, RotationCount, maps,
                     NextRotation, CurrentTotalBW>>
    ELSE /\ Phase' = "stable"
         /\ ActiveAgents' = r
         /\ LastRotation' = now
         /\ RotationCount' = RotationCount + 1
         /\ maps' = Reachable(maps, r, rot, tasks)
         /\ UNCHANGED <<NextRotation, CurrentTotalBW>>

(* Phase 4 of performRotation, under s.mu.Lock *)
Commit(r) ==
    /\ Phase' = "stable"
    /\ ActiveAgents' = r
    /\ LastRotation' = now
    /\ RotationCount' = RotationCount + 1
    /\ maps' = Reachable(maps, r, rot, tasks)
    /\ UNCHANGED <<NextRotation, CurrentTotalBW>>

(* A commit that waits until the start goroutines of the rotation are done *)
RotCommitAfterStarts(r) ==
    /\ rot[r].pc = "commit"
    /\ \A t \in tasks : ~(t.kind = "start" /\ t.r = r)
    /\ Commit(r)
    /\ rot' = SetPc(r, "schedule")
    /\ UNCHANGED <<now, tickDue, exited, clients, agentStatus, tasks, boosts, snap, call>>

(* Phase 4 of performRotation as a step of rotation r *)
RotCommit(r) ==
    /\ rot[r].pc = "commit"
    /\ Commit(r)
    /\ rot' = SetPc(r, "schedule")
    /\ UNCHANGED <<now, tickDue, exited, clients, agentStatus, tasks, boosts, snap, call>>

(* bandwidth.RandomDuration clamps the drawn interval to [min, max] *)
RandomDuration == RotationIntervalMin .. RotationIntervalMax

(* A rotation that returns without storing a new deadline *)
RotScheduleStale(r) ==
    /\ rot[r].pc = "schedule"
    /\ rot' = SetPc(r, "done")
    /\ maps' = Reachable(maps, ActiveAgents, rot', tasks)
    /\ UNCHANGED <<now, tickDue, exited, clients, Phase, ActiveAgents, NextRotation,
                   CurrentTotalBW, LastRotation, RotationCount, agentStatus,
                   tasks, boosts, snap, call>>

(* Scheduler.scheduleNextRotation, after which performRotation returns *)
RotSchedule(r) ==
    /\ rot[r].pc = "schedule"
    /\ \E nextInterval \in RandomDuration : NextRotation' = now + nextInterval
    /\ rot' = SetPc(r, "done")
    /\ maps' = Reachable(maps, ActiveAgents, rot', tasks)
    /\ UNCHANGED <<now, tickDue, exited, clients, Phase, ActiveAgents,
                   CurrentTotalBW, LastRotation, RotationCount, agentStatus,
                   tasks, boosts, snap, call>>

----------------------------------------------------------------------------
(* The staggered goroutines *)

(* A stop goroutine that tries again a period later when the send fails *)
StopAgentRetry(t) ==
    /\ t.kind = "stop"
    /\ t.wake <= now
    /\ tasks' = IF t.agent \in clients
                THEN tasks \ {t}
                ELSE (tasks \ {t}) \cup {[t EXCEPT !.wake = now + 1]}
    /\ UNCHANGED <<now, tickDue, exited, clients, fleet, agentStatus, rot, boosts, snap, call>>

(* time.Sleep(d); s.stopAgent(id): the stop command is sent or the error is *)
(* logged; either way the goroutine ends                                    *)
StopAgent(t) ==
    /\ t.kind = "stop"
    /\ t.wake <= now
    /\ tasks' = tasks \ {t}
    /\ UNCHANGED <<now, tickDue, exited, clients, fleet, agentStatus, rot, boosts, snap, call>>

(* The writes of startAgent after a successful send, made without s.mu *)
StartAgentUpdate(t, url, duration) ==
    /\ maps' = Reachable([maps EXCEPT ![t.r].objs[t.agent] =
                             [@ EXCEPT !.CurrentCommand = <<"dl", t.agent, t.r>>,
                                       !.URL = url,
                                       !.PlannedDuration = duration]],
                         ActiveAgents, rot, tasks \ {t})
    /\ agentStatus' = [agentStatus EXCEPT ![t.agent] =
                          [LastUsed |-> now, UseCount |-> @.UseCount + 1]]

(* time.Sleep(d); s.startAgent(a): the duration read under s.mu.RLock, the  *)
(* send, and on success the updates; a failed send returns before them.     *)
StartAgent(t) ==
    /\ t.kind = "start"
    /\ t.wake <= now
    /\ tasks' = tasks \ {t}
    /\ \E url \in URLs :
          LET duration == NextRotation - now + StartBuffer
          IN  IF SendToAgent(t.agent) = "ok"
              THEN StartAgentUpdate(t, url, duration)
              ELSE /\ maps' = Reachable(maps, ActiveAgents, rot, tasks \ {t})
                   /\ UNCHANGED agentStatus
    /\ UNCHANGED <<now, tickDue, exited, clients, Phase, ActiveAgents, NextRotation,
                   CurrentTotalBW, LastRotation, RotationCount, rot, boosts, snap, call>>

(* status.UseCount++ is made without s.mu: a read and a write that another  *)
(* goroutine of startAgent for the same agent can come between.  The task   *)
(* of the start goroutine of rotation r that has read the counter and not   *)
(* yet written it:                                                          *)
StoreTask(r, a, useCount) ==
    [kind |-> "store", agent |-> a, r |-> r, useCount |-> useCount, wake |-> now]

(* startAgent up to the read of status.UseCount *)
StartAgentLoad(t) ==
    /\ t.kind = "start"
    /\ t.wake <= now
    /\ \E url \in URLs :
          LET duration == NextRotation - now + StartBuffer
          IN  IF SendToAgent(t.agent) = "ok"
              THEN /\ maps' = Reachable([maps EXCEPT ![t.r].objs[t.agent] =
                                           [@ EXCEPT !.CurrentCommand = <<"dl", t.agent, t.r>>,
                                                     !.URL = url,
                                                     !.PlannedDuration = duration]],
                                       ActiveAgents, rot, tasks \ {t})
                   /\ agentStatus' = [agentStatus EXCEPT ![t.agent].LastUsed = now]
                   /\ tasks' = (tasks \ {t})
                                  \cup {StoreTask(t.r, t.agent, agentStatus[t.agent].UseCount)}
              ELSE /\ maps' = Reachable(maps, ActiveAgents, rot, tasks \ {t})
                   /\ tasks' = tasks \ {t}
                   /\ UNCHANGED agentStatus
    /\ UNCHANGED <<now, tickDue, exited, clients, Phase, ActiveAgents, NextRotation,
                   CurrentTotalBW, LastRotation, RotationCount, rot, boosts, snap, call>>

(* The write of status.UseCount++: the value read, plus one *)
StartAgentStore(t) ==
    /\ t.kind = "store"
    /\ agentStatus' = [agentStatus EXCEPT ![t.agent].UseCount = t.useCount + 1]
    /\ tasks' = tasks \ {t}
    /\ UNCHANGED <<now, tickDue, exited, clients, fleet, rot, boosts, snap, call>>

----------------------------------------------------------------------------
(* The evaluation tick and the adaptive loop *)

(* MetricsAggregator.GetAggregated: a breakdown with the last report of     *)
(* every agent that has one; reports come from registered connections.      *)
GetAggregated == UNION {[S -> BWObs] : S \in SUBSET clients}

TotalBandwidth(agg) == SumOver(agg, DOMAIN agg)

(* The test of adjustBandwidthIfNeeded on one active agent, in integers:    *)
(* agentBW < targetBW*(1-tolerance) and (deficit/targetBW)*100 > 20         *)
Underperforming(targetBW, agentBW) ==
    /\ agentBW * 100 < targetBW * (100 - TolerancePct)
    /\ (targetBW - agentBW) * 100 > DeficitPercentMin * targetBW

BoostTask(a, deficit) ==
    [agent |-> a, additionalBW |-> deficit, pc |-> "check", duration |-> 0, url |-> ""]

(* Scheduler.adjustBandwidthIfNeeded: the boost goroutines it spawns *)
adjustBandwidthIfNeeded(agg) ==
    IF Phase # "stable" THEN {}
    ELSE {BoostTask(agentID, ActiveAlloc(agentID).AllocatedBW - agg[agentID]) :
            agentID \in {a \in ActiveKeys \cap DOMAIN agg :
                           Underperforming(ActiveAlloc(a).AllocatedBW, agg[a])}}

NewRotation == [pc |-> "begin", wake |-> 0, toStop |-> {}]

(* evaluateAndAdjust without the return after `go s.performRotation()` *)
evaluateAndAdjustFallThrough ==
    /\ tickDue
    /\ ~exited
    /\ tickDue' = FALSE
    /\ rot' = IF now > NextRotation THEN (Len(rot) + 1 :> NewRotation) @@ rot ELSE rot
    /\ \E agg \in GetAggregated :
          /\ CurrentTotalBW' = TotalBandwidth(agg)
          /\ boosts' = boosts \cup adjustBandwidthIfNeeded(agg)
    /\ UNCHANGED <<now, exited, clients, Phase, ActiveAgents, NextRotation,
                   LastRotation, RotationCount, maps, agentStatus, tasks, snap, call>>

(* Scheduler.evaluateAndAdjust, the whole of it under s.mu.Lock *)
evaluateAndAdjust ==
    /\ tickDue
    /\ ~exited
    /\ tickDue' = FALSE
    /\ IF now > NextRotation
       THEN /\ rot' = (Len(rot) + 1 :> NewRotation) @@ rot
            /\ UNCHANGED <<CurrentTotalBW, boosts>>
       ELSE /\ \E agg \in GetAggregated :
                 /\ CurrentTotalBW' = TotalBandwidth(agg)
                 /\ boosts' = boosts \cup adjustBandwidthIfNeeded(agg)
            /\ rot' = rot
    /\ UNCHANGED <<now, exited, clients, Phase, ActiveAgents, NextRotation,
                   LastRotation, RotationCount, maps, agentStatus, tasks, snap, call>>

(* boostAgentBandwidth up to the read of NextRotation under s.mu.RLock:    *)
(* the clamp to [100, 500], the URL, and the return when under 30 s remain  *)
BoostCheck(b) ==
    /\ b.pc = "check"
    /\ LET duration == NextRotation - now
       IN  IF duration < BoostMinRemaining
           THEN boosts' = boosts \ {b}
           ELSE \E url \in URLs :
                   boosts' = (boosts \ {b}) \cup
                             {[b EXCEPT !.pc = "send", !.url = url, !.duration = duration,
                                        !.additionalBW = Clamp64(@, BoostMin, BoostMax)]}
    /\ UNCHANGED <<now, tickDue, exited, clients, fleet, agentStatus, rot, tasks, snap, call>>

(* boostAgentBandwidth from SendToAgent on *)
BoostSend(b) ==
    /\ b.pc = "send"
    /\ boosts' = boosts \ {b}
    /\ UNCHANGED <<now, tickDue, exited, clients, fleet, agentStatus, rot, tasks, snap, call>>

----------------------------------------------------------------------------
(* Run: the ticker and the shutdown branch *)

Runnable ==
    \/ tickDue
    \/ \E r \in DOMAIN rot :
          \/ rot[r].pc \notin {"sleep", "done"}
          \/ rot[r].pc = "sleep" /\ rot[r].wake <= now
    \/ \E t \in tasks : t.wake <= now
    \/ boosts # {}
    \/ snap.taken

(* A ticker period passes: every goroutine is asleep or waiting in select. *)
(* After Run has returned, main exits within 2 s, before another period.   *)
Advance(horizon) ==
    /\ ~exited
    /\ ~Runnable
    /\ now < horizon
    /\ now' = now + 1
    /\ tickDue' = TRUE
    /\ UNCHANGED <<exited, clients, fleet, agentStatus, rot, tasks, boosts, snap, call>>

(* Scheduler.stopAllAgents: the ids stopAgent is called for, and of them   *)
(* those whose stop command is put on a SendChan                            *)
stopAllAgents == {agentID \in ActiveKeys : SendToAgent(agentID) = "ok"}

(* Run's case <-ctx.Done(): reachable once the initial rotation returned *)
RunShutdown ==
    /\ ~exited
    /\ rot[1].pc = "done"
    /\ exited' = TRUE
    /\ UNCHANGED <<now, tickDue, clients, fleet, agentStatus, rot, tasks, boosts, snap, call>>

----------------------------------------------------------------------------
(* Scheduler.GetState and a caller that owns the returned value *)

(* A GetState that copies the struct only: the value shares the map *)
GetStateShallow ==
    [taken |-> TRUE, Phase |-> Phase, NextRotation |-> NextRotation,
     CurrentTotalBW |-> CurrentTotalBW, LastRotation |-> LastRotation,
     RotationCount |-> RotationCount,
     mapRef |-> ActiveAgents,
     keys |-> {},
     ref |-> [k \in ActiveKeys |-> ActiveAgents],
     val |-> [k \in ActiveKeys |-> ActiveAlloc(k)]]

(* state := *s.state, a fresh map, and per key allocCopy := *v.  mapRef and *)
(* ref say which objects the value points to: Own for the fresh ones, else  *)
(* the scheduler's map object of that number.                               *)
GetState ==
    [taken |-> TRUE, Phase |-> Phase, NextRotation |-> NextRotation,
     CurrentTotalBW |-> CurrentTotalBW, LastRotation |-> LastRotation,
     RotationCount |-> RotationCount,
     mapRef |-> Own,
     keys |-> ActiveKeys,
     ref |-> [k \in ActiveKeys |-> Own],
     val |-> [k \in ActiveKeys |-> ActiveAlloc(k)]]

(* What the caller sees through the value it holds *)
SnapKeys == IF snap.mapRef = Own THEN snap.keys ELSE maps[snap.mapRef].keys

SnapAlloc(k) == IF snap.ref[k] = Own THEN snap.val[k] ELSE maps[snap.ref[k]].objs[k]

(* A caller takes a value; calls are made in the first MaxCallTime periods *)
CallGetState ==
    /\ ~snap.taken
    /\ ~exited
    /\ now <= MaxCallTime
    /\ snap' = GetState
    /\ UNCHANGED <<now, tickDue, exited, clients, fleet, agentStatus, rot, tasks, boosts, call>>

(* The caller deletes a key of the returned map *)
CallerDelete(k) ==
    /\ snap.taken
    /\ k \in SnapKeys
    /\ IF snap.mapRef = Own
       THEN /\ snap' = [snap EXCEPT !.keys = @ \ {k}]
            /\ maps' = maps
       ELSE /\ maps' = [maps EXCEPT ![snap.mapRef].keys = @ \ {k}]
            /\ snap' = snap
    /\ UNCHANGED <<now, tickDue, exited, clients, Phase, ActiveAgents, NextRotation,
                   CurrentTotalBW, LastRotation, RotationCount, agentStatus, rot,
                   tasks, boosts, call>>

(* The caller writes a field of a returned allocation *)
CallerWrite(k) ==
    /\ snap.taken
    /\ k \in SnapKeys
    /\ k \in DOMAIN snap.ref
    /\ SnapAlloc(k).AllocatedBW # 0
    /\ IF snap.ref[k] = Own
       THEN /\ snap' = [snap EXCEPT !.val[k].AllocatedBW = 0]
            /\ maps' = maps
       ELSE /\ maps' = [maps EXCEPT ![snap.ref[k]].objs[k].AllocatedBW = 0]
            /\ snap' = snap
    /\ UNCHANGED <<now, tickDue, exited, clients, Phase, ActiveAgents, NextRotation,
                   CurrentTotalBW, LastRotation, RotationCount, agentStatus, rot,
                   tasks, boosts, call>>

(* The caller is done with the value *)
CallerReturn ==
    /\ snap.taken
    /\ snap' = NoSnap
    /\ UNCHANGED <<now, tickDue, exited, clients, fleet, agentStatus, rot, tasks, boosts, call>>

----------------------------------------------------------------------------
(* The specifications *)

(* The goroutines of the running controller and the transport's events *)
Step ==
    \/ \E a \in Agents : HandleRegister(a)
    \/ \E a \in Agents : HandleClientClose(a)
    \/ \E r \in DOMAIN rot : RotBegin(r)
    \/ \E r \in DOMAIN rot : RotSelect(r)
    \/ \E r \in DOMAIN rot : RotRampUp(r)
    \/ \E r \in DOMAIN rot : RotFindStart(r)
    \/ \E r \in DOMAIN rot : RotCommit(r)
    \/ \E r \in DOMAIN rot : RotSchedule(r)
    \/ \E t \in tasks : StopAgent(t)
    \/ \E t \in tasks : StartAgent(t)
    \/ evaluateAndAdjust
    \/ \E b \in boosts : BoostCheck(b)
    \/ \E b \in boosts : BoostSend(b)

Next ==
    \/ Step
    \/ Advance(MaxTime)

Spec == Init /\ [][Next]_vars

(* The controller with the shutdown signal *)
NextShutdown ==
    \/ Next
    \/ RunShutdown

SpecShutdown == Init /\ [][NextShutdown]_vars

(* The controller together with a caller of GetState *)
NextSnap ==
    \/ Step
    \/ Advance(MaxSnapTime)
    \/ CallGetState
    \/ \E k \in Agents : CallerDelete(k)
    \/ \E k \in Agents : CallerWrite(k)
    \/ CallerReturn

SpecSnap == Init /\ [][NextSnap]_vars

(* The controller with status.UseCount++ of startAgent as the two memory    *)
(* accesses it is; Spec takes them as one step.                             *)
NextRace ==
    \/ \E a \in Agents : HandleRegister(a)
    \/ \E a \in Agents : HandleClientClose(a)
    \/ \E r \in DOMAIN rot : RotBegin(r)
    \/ \E r \in DOMAIN rot : RotSelect(r)
    \/ \E r \in DOMAIN rot : RotRampUp(r)
    \/ \E r \in DOMAIN rot : RotFindStart(r)
    \/ \E r \in DOMAIN rot : RotCommit(r)
    \/ \E r \in DOMAIN rot : RotSchedule(r)
    \/ \E t \in tasks : StopAgent(t)
    \/ \E t \in tasks : StartAgentLoad(t)
    \/ \E t \in tasks : StartAgentStore(t)
    \/ evaluateAndAdjust
    \/ \E b \in boosts : BoostCheck(b)
    \/ \E b \in boosts : BoostSend(b)
    \/ Advance(MaxTime)

SpecRace == Init /\ [][NextRace]_vars

----------------------------------------------------------------------------
(* The steps whose writes are made between s.mu.Lock() and s.mu.Unlock() *)

ExclusiveSection ==
    \/ \E r \in DOMAIN rot : RotBegin(r) \/ RotRampUp(r) \/ RotCommit(r) \/ RotSchedule(r)
    \/ \E a \in Agents : HandleClientClose(a)
    \/ evaluateAndAdjust

(* A step writes the fleet state: a field of SchedulerState, the membership *)
(* of the active map, or a field of an allocation object                    *)
WritesFleet ==
    \/ <<Phase, ActiveAgents, NextRotation, CurrentTotalBW, LastRotation,
         RotationCount>>' # <<Phase, ActiveAgents, NextRotation, CurrentTotalBW,
                              LastRotation, RotationCount>>
    \/ ActiveAgents \in DOMAIN maps' /\ maps'[ActiveAgents].keys # maps[ActiveAgents].keys
    \/ \E x \in DOMAIN maps \cap DOMAIN maps' :
          \E a \in DOMAIN maps[x].objs \cap DOMAIN maps'[x].objs :
             maps'[x].objs[a] # maps[x].objs[a]

(* The rotations that have been entered and have not returned *)
InFlight == {r \in DOMAIN rot : rot[r].pc # "done"}

(* A step in which a start goroutine puts its download command on a SendChan *)
StartSent(t) ==
    /\ t.kind = "start"
    /\ t.wake <= now
    /\ SendToAgent(t.agent) = "ok"
    /\ tasks' = tasks \ {t}

(* A step in which a boost goroutine puts its download command on a SendChan *)
BoostSent(b) ==
    /\ b.pc = "send"
    /\ SendToAgent(b.agent) = "ok"
    /\ boosts' = boosts \ {b}

(* A step of a caller of GetState on the value it holds *)
CallerStep ==
    \/ CallGetState
    \/ \E k \in Agents : CallerDelete(k) \/ CallerWrite(k)
    \/ CallerReturn

----------------------------------------------------------------------------
(* The claims *)

(* C1: at most one execution of performRotation is in flight at any time, *)
(* also while a rotation sleeps in its ramp-down wait and NextRotation is   *)
(* still in the past.                                                       *)
C1_RotationsSerialized == Cardinality(InFlight) <= 1

(* C2: the phase changes only along idle -> ramping_down, stable ->        *)
(* ramping_down, ramping_down -> ramping_up, ramping_up -> stable.          *)
C2_PhaseCycle ==
    [][Phase' # Phase =>
          <<Phase, Phase'>> \in {<<"idle", "ramping_down">>, <<"stable", "ramping_down">>,
                                 <<"ramping_down", "ramping_up">>,
                                 <<"ramping_up", "stable">>}]_vars

(* C3: a worker in the active map and in the rotation's new allocations     *)
(* has, after the commit step, the active allocation it had before it.      *)
C3_KeptAllocationUnmodified ==
    [][\A r \in DOMAIN rot :
          (rot[r].pc = "commit" /\ rot'[r].pc = "schedule") =>
              \A a \in ActiveKeys \cap maps[r].keys :
                  maps'[ActiveAgents'].objs[a] = maps[ActiveAgents].objs[a]]_vars

(* C4: in one rotation no worker is both in the stop-set computed before   *)
(* the ramp-down and in the start-set computed after it, whatever           *)
(* disconnects and other rotations did to the active map in between: in     *)
(* every state from which a rotation computes its start-set, that set is    *)
(* disjoint from the rotation's stop-set.                                   *)
C4_StopStartDisjoint ==
    \A r \in DOMAIN rot :
        rot[r].pc = "findStart" =>
            rot[r].toStop \cap findAgentsToStart(maps[r]) = {}

(* C4 witness: a rotation about to compute a non-empty start-set, with a   *)
(* non-empty stop-set of which a worker has left the active map since.      *)
C4_Witness ==
    \E r \in DOMAIN rot :
        /\ rot[r].pc = "findStart"
        /\ rot[r].toStop # {}
        /\ findAgentsToStart(maps[r]) # {}
        /\ ~(rot[r].toStop \subseteq ActiveKeys)

(* C5: a boost command is sent only while the phase is stable and at least *)
(* 30 s remain before NextRotation.                                         *)
C5_BoostOnlyWhenStable ==
    [][\A b \in boosts :
          BoostSent(b) => Phase = "stable" /\ NextRotation - now >= BoostMinRemaining]_vars

(* C6: a worker that has disconnected and not reconnected is absent from   *)
(* the active allocations, also after an in-flight rotation commits.        *)
C6_DisconnectedAbsent == \A w \in ActiveKeys : w \in clients

(* C7: the disconnect of worker w removes exactly w's entry from the       *)
(* active allocations and leaves the other allocations, the phase, the      *)
(* deadline, the counters and the registry of configured workers as they    *)
(* were.                                                                    *)
C7_DisconnectFrame ==
    [][\A w \in Agents :
          (w \in clients /\ w \notin clients') =>
              /\ ActiveAgents' = ActiveAgents
              /\ maps'[ActiveAgents].keys = ActiveKeys \ {w}
              /\ \A a \in ActiveKeys \ {w} :
                    maps'[ActiveAgents].objs[a] = maps[ActiveAgents].objs[a]
              /\ UNCHANGED <<Phase, NextRotation, RotationCount, LastRotation,
                             CurrentTotalBW, agentStatus>>
              /\ DOMAIN agentStatus' = Agents]_vars

(* C7 witness: worker w was started by the initial rotation, whose map is  *)
(* the active one, and is no longer in it nor connected, while another      *)
(* allocation is still active.                                              *)
C7_Witness ==
    \E w \in Agents :
        /\ now = 0
        /\ RotationCount = 1
        /\ agentStatus[w].UseCount = 1
        /\ w \notin clients
        /\ w \notin ActiveKeys
        /\ ActiveKeys # {}

(* C8: after Run has handled the shutdown signal there is no phase change  *)
(* and no start or boost command is sent.                                   *)
C8_QuietAfterShutdown ==
    [][exited =>
          /\ Phase' = Phase
          /\ \A t \in tasks : ~StartSent(t)
          /\ \A b \in boosts : ~BoostSent(b)]_vars

(* C9: every write to the fleet state, the fields of an allocation          *)
(* included, is made inside a section that holds s.mu exclusively.          *)
C9_WritesHoldLock == [][WritesFleet => ExclusiveSection]_vars

(* C10: changing the map or an allocation of a value returned by GetState  *)
(* leaves the scheduler's fleet state as it is, and a step of the           *)
(* scheduler leaves the map membership of a value already returned as it is. *)
C10_DeepCopy ==
    [][/\ (\E k \in Agents : CallerDelete(k) \/ CallerWrite(k)) => UNCHANGED fleet
       /\ (snap.taken /\ ~CallerStep) => SnapKeys' = SnapKeys]_vars

(* C10 witness: the caller's value lacks a key the scheduler's map has and *)
(* holds an allocation the caller has overwritten, which the scheduler's    *)
(* allocation does not show.                                                *)
C10_Witness ==
    /\ snap.taken
    /\ \E k \in ActiveKeys : k \notin SnapKeys
    /\ \E k \in SnapKeys \cap ActiveKeys :
          SnapAlloc(k).AllocatedBW = 0 /\ ActiveAlloc(k).AllocatedBW # 0

----------------------------------------------------------------------------
(* Package bandwidth (calculator.go).  Each function is followed through   *)
(* one call: call holds the arguments, the locals and, at pc = "return",   *)
(* the returned value.  Slices are sequences, so the slice index idx is    *)
(* position idx + 1.  A float64 weight is a whole number of weight units.  *)

(* Largest slice length, requested count and weight the calls are made with *)
MaxLen == 3

MaxCount == 4

MaxWeight == 2

(* Sum of a sequence of numbers *)
RECURSIVE SumSeq(_)
SumSeq(s) == IF s = <<>> THEN 0 ELSE Head(s) + SumSeq(Tail(s))

(* The set of elements of a sequence *)
Range(s) == {s[i] : i \in DOMAIN s}

(* A removal that leaves the slice as it is *)
KeepIndex(s, idx) == s

(* append(s[:idx], s[idx+1:]...) *)
RemoveIndex(s, idx) == SubSeq(s, 1, idx) \o SubSeq(s, idx + 2, Len(s))

(* rand.Float64() * totalWeight, in half weight units: every value of      *)
(* [0, totalWeight) that is a multiple of one half                          *)
RandTimes(totalWeight) == 0 .. (2 * totalWeight - 1)

(* The scan of WeightedRandomSelection: the first idx with r <= cumulative, *)
(* or -1 when there is none; r2 is r in half units                          *)
FirstWithin(availableWeights, r2) ==
    LET hit == {idx \in 0 .. Len(availableWeights) - 1 :
                  r2 <= 2 * SumSeq(SubSeq(availableWeights, 1, idx + 1))}
    IN  IF hit = {} THEN 0 - 1 ELSE CHOOSE idx \in hit : \A j \in hit : idx <= j

(* The calls of WeightedRandomSelection that are followed *)
InitWeightedRandomSelection ==
    /\ Constructed
    /\ \E n \in 0 .. MaxLen : \E weights \in [1 .. n -> 0 .. MaxWeight] :
         \E count \in 0 .. MaxCount :
           call = [fn |-> "WeightedRandomSelection", pc |-> "entry",
                   count |-> count, weights |-> weights, i |-> 0,
                   selected |-> <<>>, available |-> <<>>, availableWeights |-> <<>>]

UnchangedScheduler ==
    UNCHANGED <<now, tickDue, exited, clients, fleet, agentStatus, rot, tasks, boosts, snap>>

(* count >= len(weights): all indices are returned *)
WeightedRandomSelectionAll ==
    /\ call.fn = "WeightedRandomSelection" /\ call.pc = "entry"
    /\ call.count >= Len(call.weights)
    /\ call' = [call EXCEPT !.pc = "return",
                            !.selected = [k \in 1 .. Len(call.weights) |-> k - 1]]
    /\ UnchangedScheduler

(* selected, available and availableWeights are set up *)
WeightedRandomSelectionBegin ==
    /\ call.fn = "WeightedRandomSelection" /\ call.pc = "entry"
    /\ call.count < Len(call.weights)
    /\ call' = [call EXCEPT !.pc = "loop",
                            !.available = [k \in 1 .. Len(call.weights) |-> k - 1],
                            !.availableWeights = call.weights]
    /\ UnchangedScheduler

(* One pass of the loop with totalWeight == 0: rand.Intn(len(available)) *)
WeightedRandomSelectionUniform ==
    /\ call.fn = "WeightedRandomSelection" /\ call.pc = "loop"
    /\ call.i < call.count
    /\ SumSeq(call.availableWeights) = 0
    /\ \E idx \in 0 .. Len(call.available) - 1 :
         call' = [call EXCEPT !.selected = Append(@, call.available[idx + 1]),
                              !.available = RemoveIndex(@, idx),
                              !.availableWeights = RemoveIndex(@, idx),
                              !.i = @ + 1]
    /\ UnchangedScheduler

(* One pass of the loop with totalWeight > 0: the weighted draw *)
WeightedRandomSelectionWeighted ==
    /\ call.fn = "WeightedRandomSelection" /\ call.pc = "loop"
    /\ call.i < call.count
    /\ SumSeq(call.availableWeights) # 0
    /\ \E r2 \in RandTimes(SumSeq(call.availableWeights)) :
         LET found == FirstWithin(call.availableWeights, r2)
             selectedIdx == IF found = 0 - 1 THEN Len(call.available) - 1 ELSE found
         IN  call' = [call EXCEPT !.selected = Append(@, call.available[selectedIdx + 1]),
                                  !.available = RemoveIndex(@, selectedIdx),
                                  !.availableWeights = RemoveIndex(@, selectedIdx),
                                  !.i = @ + 1]
    /\ UnchangedScheduler

(* i == count: selected is returned *)
WeightedRandomSelectionReturn ==
    /\ call.fn = "WeightedRandomSelection" /\ call.pc = "loop"
    /\ call.i >= call.count
    /\ call' = [call EXCEPT !.pc = "return"]
    /\ UnchangedScheduler

NextWeightedRandomSelection ==
    \/ WeightedRandomSelectionAll
    \/ WeightedRandomSelectionBegin
    \/ WeightedRandomSelectionUniform
    \/ WeightedRandomSelectionWeighted
    \/ WeightedRandomSelectionReturn

SpecWeightedRandomSelection ==
    InitWeightedRandomSelection /\ [][NextWeightedRandomSelection]_vars

----------------------------------------------------------------------------
(* AllocateBandwidth.  A float64 is a rational here: targetTotal is a whole *)
(* number of Mbps, a draw of rand.Float64() is k/RandGrid for a k in        *)
(* 0..RandGrid-1, and int64(x) truncates the exact quotient toward zero.    *)

(* Number of values a draw of rand.Float64() is taken from *)
RandGrid == 4

(* Largest numAgents of the calls with free arguments *)
MaxAgents == 3

(* Config.Scheduler.BandwidthRandomness, in percent *)
BandwidthRandomnessPct == 25

(* int64(n / d) for d > 0 *)
Trunc(n, d) == IF n >= 0 THEN n \div d ELSE 0 - ((0 - n) \div d)

(* 0.5 + rand.Float64(), in units of 1/(2*RandGrid) *)
RandomWeight(k) == RandGrid + 2 * k

(* A share that is not clamped *)
Unclamped(value, lo, hi) == value

(* Clamp64 as AllocateBandwidth applies it to a share *)
ClampShare(value, lo, hi) == Clamp64(value, lo, hi)

(* The loop body of AllocateBandwidth for one agent: the proportional       *)
(* share, clamped, then varied by randomnessFactor * (rand.Float64()*2 - 1) *)
(* and clamped again                                                        *)
ProportionalShare(weight, totalWeight, targetTotal, lo, hi, k) ==
    LET allocated == ClampShare(Trunc(weight * targetTotal, totalWeight), lo, hi)
        varied == Trunc(allocated * 100 * RandGrid
                          + allocated * BandwidthRandomnessPct * (2 * k - RandGrid),
                        100 * RandGrid)
    IN  ClampShare(varied, lo, hi)

(* A normalisation that does not clamp the scaled values *)
NormalizedRaw(allocations, targetTotal, actualTotal, lo, hi) ==
    [i \in DOMAIN allocations |-> Trunc(allocations[i] * targetTotal, actualTotal)]

(* The normalisation loop: allocations[i] * ratio, clamped *)
Normalized(allocations, targetTotal, actualTotal, lo, hi) ==
    [i \in DOMAIN allocations |->
        ClampShare(Trunc(allocations[i] * targetTotal, actualTotal), lo, hi)]

(* The arguments the calls are made with *)
AllocateBandwidthArgs ==
    {[targetTotal |-> t, numAgents |-> n, minPerAgent |-> b[1], maxPerAgent |-> b[2]] :
        t \in {0 - 1000, 0, 1000, 2000, 10000}, n \in 0 .. MaxAgents,
        b \in {<<400, 1200>>, <<400, 400>>, <<0, 1200>>}}

(* A call at its entry; weights holds the weights the second loop has yet   *)
(* to read                                                                  *)
AllocateBandwidthCall(args) ==
    [fn |-> "AllocateBandwidth", pc |-> "entry", args |-> args,
     weights |-> <<>>, totalWeight |-> 0, allocations |-> <<>>]

InitAllocateBandwidth ==
    /\ Constructed
    /\ \E args \in AllocateBandwidthArgs : call = AllocateBandwidthCall(args)

(* numAgents == 0: the empty slice is returned *)
AllocateBandwidthEmpty ==
    /\ call.fn = "AllocateBandwidth" /\ call.pc = "entry"
    /\ call.args.numAgents = 0
    /\ call' = [call EXCEPT !.pc = "return"]
    /\ UnchangedScheduler

(* One pass of the loop that draws the weights *)
AllocateBandwidthWeight ==
    /\ call.fn = "AllocateBandwidth"
    /\ \/ call.pc = "entry" /\ call.args.numAgents # 0
       \/ call.pc = "weights"
    /\ \E k \in 0 .. RandGrid - 1 :
         call' = [call EXCEPT !.weights = Append(@, RandomWeight(k)),
                              !.totalWeight = @ + RandomWeight(k),
                              !.pc = IF Len(call.weights) + 1 = call.args.numAgents
                                     THEN "allocate" ELSE "weights"]
    /\ UnchangedScheduler

(* One pass of the loop that allocates proportionally *)
AllocateBandwidthShare ==
    /\ call.fn = "AllocateBandwidth" /\ call.pc = "allocate"
    /\ \E k \in 0 .. RandGrid - 1 :
         LET i == Len(call.allocations) + 1
             share == ProportionalShare(Head(call.weights), call.totalWeight,
                                        call.args.targetTotal, call.args.minPerAgent,
                                        call.args.maxPerAgent, k)
         IN  call' = [call EXCEPT !.allocations = Append(@, share),
                                  !.weights = Tail(@),
                                  !.pc = IF i = call.args.numAgents
                                         THEN "normalize" ELSE "allocate"]
    /\ UnchangedScheduler

(* "Normalize to hit target exactly", and the return *)
AllocateBandwidthNormalize ==
    /\ call.fn = "AllocateBandwidth" /\ call.pc = "normalize"
    /\ LET actualTotal == SumSeq(call.allocations)
       IN  call' = [call EXCEPT
                      !.pc = "return",
                      !.allocations =
                          IF actualTotal # call.args.targetTotal /\ actualTotal > 0
                          THEN Normalized(@, call.args.targetTotal, actualTotal,
                                          call.args.minPerAgent, call.args.maxPerAgent)
                          ELSE @]
    /\ UnchangedScheduler

NextAllocateBandwidth ==
    \/ AllocateBandwidthEmpty
    \/ AllocateBandwidthWeight
    \/ AllocateBandwidthShare
    \/ AllocateBandwidthNormalize

SpecAllocateBandwidth == InitAllocateBandwidth /\ [][NextAllocateBandwidth]_vars

(* The scenario: a rotation allocates a target of 10000 to 5 selected       *)
(* agents of capacity 3000 within [400, 1200]                               *)
ScenarioArgs ==
    [targetTotal |-> 10000, numAgents |-> 5, minPerAgent |-> 400, maxPerAgent |-> 1200]

ScenarioCapacity == 3000

InitScenario ==
    /\ Constructed
    /\ call = AllocateBandwidthCall(ScenarioArgs)

(* The call's steps; with 5 agents the numAgents == 0 return is not taken *)
NextScenario ==
    \/ AllocateBandwidthWeight
    \/ AllocateBandwidthShare
    \/ AllocateBandwidthNormalize

SpecScenario == InitScenario /\ [][NextScenario]_vars

(* Scheduler.allocateBandwidth: "Don't exceed agent max capacity" *)
CapAtCapacity(allocated, maxBandwidth) == Min(allocated, maxBandwidth)

(* A call of AllocateBandwidth has returned *)
Allocated == call.fn = "AllocateBandwidth" /\ call.pc = "return"

----------------------------------------------------------------------------
(* CalculateConcurrency.  math.Sin is tabulated in thousandths for the      *)
(* elapsed times the calls are made with; the arithmetic on the three waves *)
(* is exact.                                                                *)

(* Largest min and largest max - min of the calls *)
MaxMin == 2

MaxSpread == 3

(* Elapsed seconds of the calls: the start, the first crest and trough of   *)
(* the 5-minute wave, a mixed point, and the crest and trough of the sum    *)
ElapsedSeconds == {0, 471, 1414, 2000, 85180, 104972}

(* round(1000 * math.Sin(elapsedSeconds / d)) for d = 300, 180, 420 *)
SinMilli(elapsedSeconds) ==
    CASE elapsedSeconds = 0      -> <<0, 0, 0>>
      [] elapsedSeconds = 471    -> <<1000, 501, 901>>
      [] elapsedSeconds = 1414   -> <<0 - 1000, 1000, 0 - 223>>
      [] elapsedSeconds = 2000   -> <<374, 0 - 993, 0 - 999>>
      [] elapsedSeconds = 85180  -> <<928, 916, 984>>
      [] elapsedSeconds = 104972 -> <<0 - 928, 0 - 916, 0 - 984>>

(* A clamp that returns the value as it is *)
NoClamp(value, lo, hi) == value

(* Clamp *)
Clamp(value, lo, hi) == IF value < lo THEN lo ELSE IF value > hi THEN hi ELSE value

(* min + int(float64(max-min) * normalized), where                          *)
(* normalized = ((wave1 + wave2*0.5 + wave3*0.3) / 1.8 + 1) / 2             *)
BaseConcurrency(elapsedSeconds, lo, hi) ==
    LET wave == SinMilli(elapsedSeconds)
        num == 10 * wave[1] + 5 * wave[2] + 3 * wave[3] + 18000
    IN  lo + Trunc((hi - lo) * num, 36000)

InitCalculateConcurrency ==
    /\ Constructed
    /\ \E elapsedSeconds \in ElapsedSeconds, lo \in 0 .. MaxMin, spread \in 0 .. MaxSpread :
         call = [fn |-> "CalculateConcurrency", pc |-> "entry",
                 elapsedSeconds |-> elapsedSeconds, min |-> lo, max |-> lo + spread,
                 concurrent |-> 0, result |-> 0]

(* The whole function: randomAdjust is rand.Intn(3) - 1 *)
CalculateConcurrency ==
    /\ call.fn = "CalculateConcurrency" /\ call.pc = "entry"
    /\ \E randomAdjust \in {0 - 1, 0, 1} :
         LET concurrent == BaseConcurrency(call.elapsedSeconds, call.min, call.max)
                             + randomAdjust
         IN  call' = [call EXCEPT !.pc = "return",
                                  !.concurrent = concurrent,
                                  !.result = Clamp(concurrent, call.min, call.max)]
    /\ UnchangedScheduler

SpecCalculateConcurrency == InitCalculateConcurrency /\ [][CalculateConcurrency]_vars

----------------------------------------------------------------------------
(* scheduleNextRotation and RandomDuration, followed through one call at    *)
(* wall-clock time call.now.  Times and durations are whole milliseconds;   *)
(* a draw of rand.Float64() is k/RandGrid.                                  *)

(* Config.Scheduler.TimingRandomness, in percent *)
TimingRandomnessPct == 30

(* Latest second at which the reschedule step is followed *)
MaxNow == 2

(* Pairs of RotationIntervalMin and RotationIntervalMax, in seconds: the    *)
(* pair of the scheduler above, a single-valued one and the default         *)
IntervalBounds == {<<30, 35>>, <<30, 30>>, <<30, 180>>}

(* A clamp that returns the value as it is *)
NoClampFloat(value, lo, hi) == value

(* ClampFloat *)
ClampFloat(value, lo, hi) == IF value < lo THEN lo ELSE IF value > hi THEN hi ELSE value

InitScheduleNextRotation ==
    /\ Constructed
    /\ \E t \in 0 .. MaxNow, b \in IntervalBounds :
         call = [fn |-> "scheduleNextRotation", pc |-> "entry", now |-> 1000 * t,
                 minSeconds |-> 1000 * b[1], maxSeconds |-> 1000 * b[2],
                 duration |-> 0, nextInterval |-> 0, NextRotation |-> 0]

(* RandomDuration: duration := minSeconds + rand.Float64()*(maxSeconds-minSeconds) *)
RandomDurationDraw ==
    /\ call.fn = "scheduleNextRotation" /\ call.pc = "entry"
    /\ \E k \in 0 .. RandGrid - 1 :
         call' = [call EXCEPT
                    !.pc = "jitter",
                    !.duration = call.minSeconds
                                   + Trunc(k * (call.maxSeconds - call.minSeconds), RandGrid)]
    /\ UnchangedScheduler

(* RandomDuration: the jitter is added and ClampFloat's value is returned *)
RandomDurationJitter ==
    /\ call.fn = "scheduleNextRotation" /\ call.pc = "jitter"
    /\ \E k \in 0 .. RandGrid - 1 :
         LET jitter == Trunc(call.duration * TimingRandomnessPct * (2 * k - RandGrid),
                             100 * RandGrid)
         IN  call' = [call EXCEPT
                        !.pc = "store",
                        !.duration = call.duration + jitter,
                        !.nextInterval = ClampFloat(call.duration + jitter,
                                                    call.minSeconds, call.maxSeconds)]
    /\ UnchangedScheduler

(* scheduleNextRotation: s.state.NextRotation = time.Now().Add(nextInterval) *)
ScheduleNextRotationStore ==
    /\ call.fn = "scheduleNextRotation" /\ call.pc = "store"
    /\ call' = [call EXCEPT !.pc = "return",
                            !.NextRotation = call.now + call.nextInterval]
    /\ UnchangedScheduler

NextScheduleNextRotation ==
    \/ RandomDurationDraw
    \/ RandomDurationJitter
    \/ ScheduleNextRotationStore

SpecScheduleNextRotation ==
    InitScheduleNextRotation /\ [][NextScheduleNextRotation]_vars

----------------------------------------------------------------------------
(* C11: for every weight list of n candidates and every requested count,   *)
(* WeightedRandomSelection returns exactly min(count, n) indices, all       *)
(* distinct and all within 0..n-1, whatever the random draws; with          *)
(* count >= n the result is the full candidate set.                         *)
C11_SelectionDistinctInRange ==
    (call.fn = "WeightedRandomSelection" /\ call.pc = "return") =>
        LET n == Len(call.weights)
            result == call.selected
        IN  /\ Len(result) = Min(call.count, n)
            /\ Cardinality(Range(result)) = Len(result)
            /\ Range(result) \subseteq 0 .. n - 1
            /\ call.count >= n => Range(result) = 0 .. n - 1

(* C11 witness: a call that returned two of three candidates through the    *)
(* weighted draw and the uniform draw, not in index order                   *)
C11_Witness ==
    /\ call.fn = "WeightedRandomSelection" /\ call.pc = "return"
    /\ call.weights = <<0, 1, 0>>
    /\ call.count = 2
    /\ call.selected = <<1, 2>>

(* C12: every worker a rotation selects is a configured worker whose id is  *)
(* in the connected ids read by that rotation's selection step; a worker    *)
(* that is disconnected when the ids are read is not selected.              *)
C12_SelectedConnected ==
    [][\A r \in DOMAIN rot :
          (rot[r].pc = "select" /\ rot'[r].pc # "select") =>
              maps'[r].keys \subseteq {a \in Agents : a \in clients}]_vars

(* C12 witness: a later rotation has selected a1 alone while a2, used by an *)
(* earlier rotation, is disconnected                                        *)
C12_Witness ==
    \E r \in DOMAIN rot :
        /\ r >= 2
        /\ rot[r].pc \in {"sleep", "rampUp"}
        /\ maps[r].keys = {"a1"}
        /\ clients = {"a1"}
        /\ agentStatus["a2"].UseCount = 1

(* C13: a rotation whose selection step finds no connected worker goes on   *)
(* to the end: it selects nothing, its commit installs an empty active      *)
(* allocation set, sets the phase to stable and increments the rotation     *)
(* counter, and its reschedule step sets a deadline after the current time. *)
C13_EmptyRotationCompletes ==
    [][\A r \in DOMAIN rot :
          /\ (rot[r].pc = "select" /\ rot'[r].pc # "select" /\ clients = {}) =>
                 /\ maps'[r].keys = {}
                 /\ rot'[r].pc \in {"sleep", "rampUp"}
          /\ (rot[r].pc = "commit" /\ rot'[r].pc # "commit" /\ maps[r].keys = {}) =>
                 /\ rot'[r].pc = "schedule"
                 /\ ActiveKeys' = {}
                 /\ Phase' = "stable"
                 /\ RotationCount' = RotationCount + 1
          /\ (rot[r].pc = "schedule" /\ rot'[r].pc # "schedule" /\ maps[r].keys = {}) =>
                 /\ rot'[r].pc = "done"
                 /\ NextRotation' > now]_vars

(* C13 witness: the second rotation found nobody connected after a worker   *)
(* had been active, and has returned with the empty set committed           *)
C13_Witness ==
    /\ Len(rot) >= 2
    /\ rot[2].pc = "done"
    /\ ActiveAgents = 2
    /\ ActiveKeys = {}
    /\ Phase = "stable"
    /\ RotationCount = 2
    /\ NextRotation > now
    /\ \E a \in Agents : agentStatus[a].UseCount = 1

(* C14: for every target, every worker count N >= 1 and bounds              *)
(* minPerWorker <= maxPerWorker, each of the N values AllocateBandwidth     *)
(* returns lies in [minPerWorker, maxPerWorker], whatever the draws.        *)
C14_AllocationWithinBounds ==
    (Allocated /\ call.args.numAgents >= 1) =>
        /\ Len(call.allocations) = call.args.numAgents
        /\ \A i \in DOMAIN call.allocations :
              /\ call.allocations[i] >= call.args.minPerAgent
              /\ call.allocations[i] <= call.args.maxPerAgent

(* C14 witness: a returned call whose values differ and lie strictly        *)
(* between the bounds                                                       *)
C14_Witness ==
    /\ Allocated
    /\ call.args.numAgents = 3
    /\ call.args.targetTotal = 2000
    /\ \E i, j \in DOMAIN call.allocations :
          /\ call.allocations[i] # call.allocations[j]
          /\ call.allocations[i] > call.args.minPerAgent
          /\ call.allocations[j] < call.args.maxPerAgent

(* C15: when the target is feasible for the worker count                    *)
(* (N*minPerWorker <= target <= N*maxPerWorker), the values AllocateBandwidth *)
(* returns sum to the target within rounding tolerance (one unit per        *)
(* truncated value), whatever the weights and perturbations.                *)
C15_SumEqualsTarget ==
    LET n == call.args.numAgents
        sum == SumSeq(call.allocations)
    IN  (/\ Allocated
         /\ n >= 1
         /\ n * call.args.minPerAgent <= call.args.targetTotal
         /\ call.args.targetTotal <= n * call.args.maxPerAgent) =>
            /\ sum - call.args.targetTotal <= n
            /\ call.args.targetTotal - sum <= n

(* What the rotation stores for the scenario: the returned values, capped   *)
(* at the agents' capacity                                                  *)
ScenarioAllocations ==
    [i \in DOMAIN call.allocations |-> CapAtCapacity(call.allocations[i], ScenarioCapacity)]

(* C16: with target = 10000, 5 selected workers of capacity >= 3000 and     *)
(* clamp bounds [400, 1200], every allocation the rotation produces lies in *)
(* [400, 1200] and the allocations sum to 10000 within rounding tolerance.  *)
C16_ScenarioSumsToTarget ==
    Allocated =>
        /\ \A i \in DOMAIN ScenarioAllocations :
              ScenarioAllocations[i] >= 400 /\ ScenarioAllocations[i] <= 1200
        /\ SumSeq(ScenarioAllocations) - 10000 <= 5
        /\ 10000 - SumSeq(ScenarioAllocations) <= 5

(* C16 as amended: in the scenario every allocation the rotation produces   *)
(* lies in [400, 1200], and the allocations sum to at most 6000 (5 x 1200), *)
(* short of the target 10000.                                               *)
C16_ScenarioWithinBounds ==
    Allocated =>
        /\ Len(ScenarioAllocations) = 5
        /\ \A i \in DOMAIN ScenarioAllocations :
              ScenarioAllocations[i] >= 400 /\ ScenarioAllocations[i] <= 1200
        /\ SumSeq(ScenarioAllocations) <= 6000
        /\ 10000 - SumSeq(ScenarioAllocations) >= 4000

(* C16 witness: the scenario's call has returned after a normalisation pass *)
(* over shares that were not all at the upper bound                         *)
C16_Witness ==
    /\ Allocated
    /\ call.args = ScenarioArgs
    /\ Len(ScenarioAllocations) = 5
    /\ SumSeq(ScenarioAllocations) = 6000

(* C17: for degenerate input, a worker count of zero or a target that is    *)
(* not positive, AllocateBandwidth returns an empty allocation set.         *)
C17_DegenerateInputEmpty ==
    (Allocated /\ (call.args.numAgents = 0 \/ call.args.targetTotal <= 0)) =>
        call.allocations = <<>>

(* C18: in every reachable state every allocation of the active allocation *)
(* set has an allocated throughput of at most its worker's declared max     *)
(* capacity.                                                                *)
C18_ActiveWithinCapacity ==
    \A a \in ActiveKeys : ActiveAlloc(a).AllocatedBW <= MaxBandwidth[a]

(* C18 witness: both workers are active, a1 holding its capacity, which is  *)
(* less than the share the allocator gave it                                *)
C18_Witness ==
    /\ ActiveKeys = {"a1", "a2"}
    /\ ActiveAlloc("a1").AllocatedBW = MaxBandwidth["a1"]
    /\ MaxBandwidth["a1"] < ServerBandwidthMax
    /\ ActiveAlloc("a2").AllocatedBW = ServerBandwidthMax

(* C19: for all min <= max, every elapsed time and every perturbation in    *)
(* {-1, 0, +1}, CalculateConcurrency returns an integer in [min, max].      *)
C19_ConcurrencyWithinRange ==
    (call.fn = "CalculateConcurrency" /\ call.pc = "return") =>
        /\ call.result \in Int
        /\ call.result >= call.min
        /\ call.result <= call.max

(* C19 witness: a call in the trough of the waves, with max = min + 3, has  *)
(* returned min where the wave and the perturbation gave min - 1            *)
C19_Witness ==
    /\ call.fn = "CalculateConcurrency" /\ call.pc = "return"
    /\ call.elapsedSeconds = 104972
    /\ call.max = call.min + 3
    /\ call.concurrent = call.min - 1
    /\ call.result = call.min

(* C20: after the reschedule step of a rotation the stored next-rotation    *)
(* deadline is the time of the step plus an interval in                     *)
(* [minInterval, maxInterval], whatever the draw and the jitter.            *)
C20_DeadlineWithinInterval ==
    (call.fn = "scheduleNextRotation" /\ call.pc = "return") =>
        /\ call.NextRotation - call.now >= call.minSeconds
        /\ call.NextRotation - call.now <= call.maxSeconds

(* C20 witness: at a time after the start, a draw inside [30 s, 35 s] was   *)
(* carried past the maximum by the jitter and the deadline stored is the    *)
(* time of the step plus the maximum                                        *)
C20_Witness ==
    /\ call.fn = "scheduleNextRotation" /\ call.pc = "return"
    /\ call.now > 0
    /\ call.minSeconds = 30000 /\ call.maxSeconds = 35000
    /\ call.duration > call.maxSeconds
    /\ call.NextRotation = call.now + call.maxSeconds

(* C21: every start command issued for a rotation carries the time left     *)
(* until the next rotation plus the 60-second buffer, the next rotation     *)
(* being the deadline stored by that rotation's own reschedule step: when   *)
(* the command is sent the rotation has rescheduled and the deadline read   *)
(* has not expired.                                                         *)
C21_DurationFromOwnDeadline ==
    [][\A t \in tasks :
          StartSent(t) =>
              /\ rot[t.r].pc = "done"
              /\ NextRotation >= now]_vars

(* A step in which startAgent puts its download command on a SendChan, in   *)
(* either granularity of the counter update                                 *)
StartDelivered(t) ==
    /\ t.kind = "start"
    /\ t.wake <= now
    /\ SendToAgent(t.agent) = "ok"
    /\ t \notin tasks'

(* A step in which a start goroutine writes the use count it computed *)
StartStored(t) ==
    /\ t.kind = "store"
    /\ t \notin tasks'

(* C22: the status of a worker changes only through a delivered start       *)
(* command, and each delivered start command adds exactly one to the use    *)
(* count: the last-used time changes only in a step that delivers a start   *)
(* command to the worker, the write that completes a delivered start raises *)
(* the use count by one, and no other step (stop, boost, failed send)       *)
(* changes the use count.                                                   *)
C22_UseCountCountsDeliveries ==
    [][\A a \in Agents :
          LET delivered == \E t \in tasks : t.agent = a /\ StartDelivered(t)
              stored == \E t \in tasks : t.agent = a /\ StartStored(t)
          IN  /\ agentStatus'[a].LastUsed # agentStatus[a].LastUsed => delivered
              /\ stored => agentStatus'[a].UseCount = agentStatus[a].UseCount + 1
              /\ ~stored => agentStatus'[a].UseCount = agentStatus[a].UseCount]_vars

(* A step in which SendToAgent returns an error to startAgent, stopAgent or *)
(* boostAgentBandwidth, and the caller returns                              *)
StartFailed(t) ==
    /\ t.kind = "start"
    /\ t.wake <= now
    /\ SendToAgent(t.agent) # "ok"
    /\ t \notin tasks'

StopFailed(t) ==
    /\ t.kind = "stop"
    /\ t.wake <= now
    /\ SendToAgent(t.agent) # "ok"
    /\ t \notin tasks'

BoostFailed(b) ==
    /\ b.pc = "send"
    /\ SendToAgent(b.agent) # "ok"
    /\ b \notin boosts'

----------------------------------------------------------------------------
(* Server.SendToAgent on the connection table and the send channels.  The   *)
(* server part of the state is carried in the record of the call: clients   *)
(* maps an agent id to the Client stored for it (0 for none), SendChan maps *)
(* a Client to the content of its buffered channel.  OneMsg stands for any  *)
(* *protocol.Message.                                                       *)

SendChanCap == 256

OneMsg == "msg"

(* Connections made in a run *)
MaxConns == 2

(* The agent whose connections are followed; the other ids never register *)
SendAgent == "a1"

(* The Clients something still points to: the table or the call in progress *)
LiveClients(c) ==
    [c EXCEPT !.SendChan =
        [k \in {j \in DOMAIN c.SendChan :
                   \/ \E a \in Agents : c.clients[a] = j
                   \/ c.client = j} |-> c.SendChan[k]]]

InitSendToAgent ==
    /\ Constructed
    /\ call = [fn |-> "SendToAgent", pc |-> "idle", agentID |-> "", client |-> 0,
               ret |-> "", clients |-> [a \in Agents |-> 0], conns |-> 0,
               SendChan |-> <<>>]

(* handleWebSocket makes the Client with its channel of 256 slots and       *)
(* handleRegister stores it under the agent id, replacing an older one      *)
ServerRegister ==
    /\ call.conns < MaxConns
    /\ LET k == call.conns + 1
       IN  call' = LiveClients([call EXCEPT !.conns = k,
                                            !.clients[SendAgent] = k,
                                            !.SendChan = (k :> <<>>) @@ @])
    /\ UnchangedScheduler

(* handleClient's deferred s.clients.Delete(client.AgentID) *)
ServerClose ==
    /\ call.clients[SendAgent] # 0
    /\ call' = LiveClients([call EXCEPT !.clients[SendAgent] = 0])
    /\ UnchangedScheduler

(* writeMessages takes a message from the channel *)
ServerWrite(k) ==
    /\ call.SendChan[k] # <<>>
    /\ call' = [call EXCEPT !.SendChan[k] = Tail(@)]
    /\ UnchangedScheduler

SendToAgentCall(agentID) ==
    /\ call.pc = "idle"
    /\ call' = [call EXCEPT !.pc = "load", !.agentID = agentID]
    /\ UnchangedScheduler

(* clientVal, ok := s.clients.Load(agentID) *)
SendToAgentLoad ==
    /\ call.pc = "load"
    /\ call' = IF call.clients[call.agentID] = 0
               THEN [call EXCEPT !.pc = "return", !.ret = "not connected"]
               ELSE [call EXCEPT !.pc = "select", !.client = call.clients[call.agentID]]
    /\ UnchangedScheduler

(* A select without the default case: the send waits for a free slot *)
SelectBlocking(c) ==
    IF Len(c.SendChan[c.client]) < SendChanCap
    THEN [c EXCEPT !.pc = "return", !.ret = "nil",
                   !.SendChan[c.client] = Append(@, OneMsg)]
    ELSE c

(* select { case client.SendChan <- msg: return nil; default: return error } *)
Select(c) ==
    IF Len(c.SendChan[c.client]) < SendChanCap
    THEN [c EXCEPT !.pc = "return", !.ret = "nil",
                   !.SendChan[c.client] = Append(@, OneMsg)]
    ELSE [c EXCEPT !.pc = "return", !.ret = "send channel full"]

(* The select statement; a send that waits is no step *)
SendToAgentSelect ==
    /\ call.pc = "select"
    /\ call' = Select(call)
    /\ call' # call
    /\ UnchangedScheduler

SendToAgentReturn ==
    /\ call.pc = "return"
    /\ call' = LiveClients([call EXCEPT !.pc = "idle", !.agentID = "", !.client = 0,
                                        !.ret = ""])
    /\ UnchangedScheduler

NextSendToAgent ==
    \/ ServerRegister
    \/ ServerClose
    \/ \E k \in DOMAIN call.SendChan : ServerWrite(k)
    \/ \E agentID \in Agents : SendToAgentCall(agentID)
    \/ SendToAgentLoad
    \/ SendToAgentSelect
    \/ SendToAgentReturn

SpecSendToAgent == InitSendToAgent /\ [][NextSendToAgent]_vars

(* C24: SendToAgent never blocks and has three outcomes.  A call in         *)
(* progress can always take its next step; the lookup of an id with no      *)
(* registered client returns "not connected" and touches no channel; the    *)
(* send on a channel holding 256 messages returns "send channel full" and   *)
(* leaves the channel as it is; any other send appends the message once to  *)
(* the channel of the client that was looked up and returns nil.            *)
C24_SendToAgentOutcomes ==
    /\ [](call.pc \in {"load", "select"} => ENABLED (SendToAgentLoad \/ SendToAgentSelect))
    /\ [][/\ ((call.pc = "load" /\ call'.pc # "load" /\ call.clients[call.agentID] = 0)
               => (/\ call'.pc = "return"
                   /\ call'.ret = "not connected"
                   /\ call'.SendChan = call.SendChan))
           /\ ((call.pc = "select" /\ call'.pc # "select")
               => LET k == call.client
                      full == Len(call.SendChan[k]) = SendChanCap
                  IN  /\ call'.pc = "return"
                      /\ call'.ret = IF full THEN "send channel full" ELSE "nil"
                      /\ call'.SendChan =
                            IF full THEN call.SendChan
                            ELSE [call.SendChan EXCEPT ![k] = Append(@, OneMsg)])]_vars

(* A send has found the channel full, with the client still registered *)
C24_Witness ==
    /\ call.pc = "return"
    /\ call.ret = "send channel full"
    /\ Len(call.SendChan[call.client]) = SendChanCap
    /\ call.clients[call.agentID] = call.client

----------------------------------------------------------------------------
(* Start-up of the controller: LoadConfig, Config.Validate, and main up to  *)
(* the start of the scheduler.  A configuration is followed by the fields   *)
(* Validate reads: whether an auth token is given, the agents in the order  *)
(* of the file, the number of URLs, and the two concurrency limits.         *)

(* Largest number of agents, and largest concurrency limit, in a file *)
MaxCfgAgents == 2
MaxCfgConcurrent == 3

DefaultMinConcurrent == 2
DefaultMaxConcurrent == 8

CfgAgent == [ID : {"", "a1", "a2"}, MaxBandwidth : {-1, 0, 1000}]

CfgAgentLists == UNION {[1..n -> CfgAgent] : n \in 0..MaxCfgAgents}

ConfigFiles ==
    [AuthToken : {"", "token"},
     Agents : CfgAgentLists,
     URLs : 0..1,
     MinConcurrent : 0..MaxCfgConcurrent,
     MaxConcurrent : 0..MaxCfgConcurrent]

InitMain ==
    /\ Constructed
    /\ \E file \in ConfigFiles :
          call = [fn |-> "main", pc |-> "LoadConfig", config |-> file, err |-> "nil"]

(* LoadConfig: a limit of 0 is taken as not set *)
LoadConfig(file) ==
    [file EXCEPT !.MinConcurrent = IF @ = 0 THEN DefaultMinConcurrent ELSE @,
                 !.MaxConcurrent = IF @ = 0 THEN DefaultMaxConcurrent ELSE @]

(* The loop of Validate that skips the test for a repeated id *)
RECURSIVE ValidateAgentsNoDup(_, _, _)
ValidateAgentsNoDup(agents, i, agentIDs) ==
    IF i > Len(agents) THEN "nil"
    ELSE IF agents[i].ID = "" THEN "agent ID is required"
    ELSE IF agents[i].MaxBandwidth <= 0 THEN "agent must have max_bandwidth > 0"
    ELSE ValidateAgentsNoDup(agents, i + 1, agentIDs)

(* The loop over c.Agents of Validate, from the i-th agent on, agentIDs the *)
(* ids seen so far                                                          *)
RECURSIVE ValidateAgents(_, _, _)
ValidateAgents(agents, i, agentIDs) ==
    IF i > Len(agents) THEN "nil"
    ELSE IF agents[i].ID = "" THEN "agent ID is required"
    ELSE IF agents[i].ID \in agentIDs THEN "duplicate agent ID"
    ELSE IF agents[i].MaxBandwidth <= 0 THEN "agent must have max_bandwidth > 0"
    ELSE ValidateAgents(agents, i + 1, agentIDs \cup {agents[i].ID})

(* Config.Validate: the first error, or "nil" *)
Validate(c) ==
    IF c.AuthToken = "" THEN "server.auth_token is required"
    ELSE IF Len(c.Agents) = 0 THEN "at least one agent must be configured"
    ELSE IF c.URLs = 0 THEN "at least one download URL must be configured"
    ELSE IF c.MinConcurrent > c.MaxConcurrent
         THEN "scheduler.min_concurrent cannot be greater than max_concurrent"
    ELSE IF c.MinConcurrent > Len(c.Agents)
         THEN "scheduler.min_concurrent cannot be greater than number of agents"
    ELSE ValidateAgents(c.Agents, 1, {})

(* config, err := controller.LoadConfig(path) of a readable file *)
MainLoadConfig ==
    /\ call.pc = "LoadConfig"
    /\ call' = [call EXCEPT !.pc = "Validate", !.config = LoadConfig(@)]
    /\ UnchangedScheduler

(* if err := config.Validate(); err != nil { ...; os.Exit(1) } *)
MainValidate ==
    /\ call.pc = "Validate"
    /\ LET err == Validate(call.config)
       IN  call' = [call EXCEPT !.err = err,
                                !.pc = IF err # "nil" THEN "Exit" ELSE "NewServer"]
    /\ UnchangedScheduler

(* controller.NewServer, which calls NewScheduler *)
MainNewServer ==
    /\ call.pc = "NewServer"
    /\ call' = [call EXCEPT !.pc = "Start"]
    /\ UnchangedScheduler

(* server.Start, which runs go s.scheduler.Run(ctx) *)
MainStart ==
    /\ call.pc = "Start"
    /\ call' = [call EXCEPT !.pc = "Run"]
    /\ UnchangedScheduler

NextMain ==
    \/ MainLoadConfig
    \/ MainValidate
    \/ MainNewServer
    \/ MainStart

SpecMain == InitMain /\ [][NextMain]_vars

(* The configurations the claim calls invalid *)
InvalidBounds(c) ==
    \/ c.MinConcurrent > c.MaxConcurrent
    \/ c.MinConcurrent > Len(c.Agents)

InvalidAgents(c) ==
    \/ \E i \in DOMAIN c.Agents : c.Agents[i].ID = ""
    \/ \E i, j \in DOMAIN c.Agents : i # j /\ c.Agents[i].ID = c.Agents[j].ID
    \/ \E i \in DOMAIN c.Agents : c.Agents[i].MaxBandwidth <= 0

(* C25: a loaded configuration whose minimum concurrency exceeds the        *)
(* maximum or the number of agents, or that has an empty or repeated agent  *)
(* id or an agent with maximum bandwidth <= 0, gets an error from Validate, *)
(* and main exits before NewServer creates the scheduler and before Start   *)
(* runs it.                                                                 *)
C25_InvalidConfigRejected ==
    (call.pc # "LoadConfig" /\ (InvalidBounds(call.config) \/ InvalidAgents(call.config)))
        => /\ call.pc \in {"Validate", "Exit"}
           /\ call.pc = "Exit" => call.err # "nil"

(* A configuration whose only fault is a repeated agent id has been rejected *)
C25_Witness ==
    /\ call.pc = "Exit"
    /\ call.err = "duplicate agent ID"
    /\ ~InvalidBounds(call.config)
    /\ \A i \in DOMAIN call.config.Agents :
          call.config.Agents[i].ID # "" /\ call.config.Agents[i].MaxBandwidth > 0

----------------------------------------------------------------------------
(* The deadline has passed: what evaluateAndAdjust tests at a tick *)
DeadlinePassed == now > NextRotation

(* C26: rotations recur.  The clock of the model advances only when no      *)
(* goroutine can run, which is the fairness of the tick loop and of the     *)
(* spawned tasks; "eventually" is then a bound in time.  Whenever the       *)
(* deadline has passed, the tick that sees it is due or a rotation is on    *)
(* its way; the deadline is never overdue by more than one tick plus the    *)
(* ramp-down wait; every rotation's commit sets the phase to stable and     *)
(* adds one to the rotation counter, and its reschedule step stores a       *)
(* deadline after the current time.                                         *)
C26_RotationsRecur ==
    /\ [](DeadlinePassed => (tickDue \/ \E r \in DOMAIN rot : rot[r].pc # "done"))
    /\ [](now <= NextRotation + 1 + RampDownDuration)
    /\ [][\A r \in DOMAIN rot :
             /\ (rot[r].pc = "commit" /\ rot'[r].pc # "commit") =>
                    (Phase' = "stable" /\ RotationCount' = RotationCount + 1)
             /\ (rot[r].pc = "schedule" /\ rot'[r].pc # "schedule") =>
                    (rot'[r].pc = "done" /\ NextRotation' > now')]_vars

(* The first deadline has passed and the rotation started for it has        *)
(* committed and stored the next one                                        *)
C26_Witness ==
    /\ now > RotationIntervalMin
    /\ RotationCount >= 2
    /\ Phase = "stable"
    /\ NextRotation > now
    /\ \A r \in DOMAIN rot : rot[r].pc = "done"

----------------------------------------------------------------------------
(* The size of the active set: calculateConcurrency, selectAgents and the   *)
(* commit of one rotation, followed for any valid pair of limits and any    *)
(* pool of configured agents, with agents connecting and disconnecting.     *)
(* The agents are numbered; connected, selected and active are sets of      *)
(* them.                                                                    *)

(* Largest number of configured agents *)
MaxPool == 4

InitRotationSize ==
    /\ Constructed
    /\ \E elapsedSeconds \in ElapsedSeconds, lo \in 1 .. MaxMin, spread \in 0 .. MaxSpread,
          n \in 1 .. MaxPool :
         /\ lo <= n
         /\ \E connected \in SUBSET (1 .. n) :
               call = [fn |-> "performRotation", pc |-> "calculateConcurrency",
                       elapsedSeconds |-> elapsedSeconds, min |-> lo, max |-> lo + spread,
                       agents |-> 1 .. n, connected |-> connected, count |-> 0,
                       available |-> {}, selected |-> {}, active |-> {}]

(* handleRegister of a configured agent *)
SizeConnect(a) ==
    /\ a \notin call.connected
    /\ call' = [call EXCEPT !.connected = @ \cup {a}]
    /\ UnchangedScheduler

(* handleClient's cleanup: the id leaves the table and the active set *)
SizeDisconnect(a) ==
    /\ a \in call.connected
    /\ call' = [call EXCEPT !.connected = @ \ {a}, !.active = @ \ {a}]
    /\ UnchangedScheduler

(* Scheduler.calculateConcurrency *)
SizeCalculateConcurrency ==
    /\ call.fn = "performRotation" /\ call.pc = "calculateConcurrency"
    /\ \E randomAdjust \in {0 - 1, 0, 1} :
         LET concurrent == BaseConcurrency(call.elapsedSeconds, call.min, call.max)
                             + randomAdjust
         IN  call' = [call EXCEPT !.pc = "selectAgents",
                                  !.count = Clamp(concurrent, call.min, call.max)]
    /\ UnchangedScheduler

(* A selection that takes every available agent *)
SelectedCountAll(count, available) == available

(* if count > len(available) { count = len(available) } *)
SelectedCount(count, available) == IF count > available THEN available ELSE count

(* Scheduler.selectAgents: WeightedRandomSelection returns that many        *)
(* distinct indices of available                                            *)
SizeSelectAgents ==
    /\ call.fn = "performRotation" /\ call.pc = "selectAgents"
    /\ LET available == call.agents \cap call.connected
       IN  \E selected \in SUBSET available :
              /\ Cardinality(selected)
                    = SelectedCount(call.count, Cardinality(available))
              /\ call' = [call EXCEPT !.pc = "commit", !.available = available,
                                       !.selected = selected]
    /\ UnchangedScheduler

(* Phase 4 of performRotation: s.state.ActiveAgents = allocations *)
SizeCommit ==
    /\ call.fn = "performRotation" /\ call.pc = "commit"
    /\ call' = [call EXCEPT !.pc = "done", !.active = call.selected]
    /\ UnchangedScheduler

NextRotationSize ==
    \/ \E a \in call.agents : SizeConnect(a)
    \/ \E a \in call.agents : SizeDisconnect(a)
    \/ SizeCalculateConcurrency
    \/ SizeSelectAgents
    \/ SizeCommit

SpecRotationSize == InitRotationSize /\ [][NextRotationSize]_vars

(* C27: the active allocation set never holds more workers than the         *)
(* configured maximum concurrency, and the set a rotation's commit installs *)
(* holds at least min(minimum concurrency, number of configured workers     *)
(* that were connected when the rotation selected).                         *)
C27_ActiveSetSize ==
    /\ [](call.fn = "performRotation" => Cardinality(call.active) <= call.max)
    /\ [][(call.pc = "commit" /\ call'.pc = "done") =>
             Cardinality(call'.active) >= Min(call.min, Cardinality(call.available))]_vars

(* More workers are connected than the maximum allows, and the committed    *)
(* set holds exactly the maximum                                            *)
C27_Witness ==
    /\ call.fn = "performRotation" /\ call.pc = "done"
    /\ Cardinality(call.available) > call.max
    /\ Cardinality(call.active) = call.max
    /\ call.max > call.min

----------------------------------------------------------------------------
(* The agent's Client: Run, connect, handleReconnect and readMessages.  The *)
(* record holds the goroutine of Run (main), the reader goroutine, the      *)
(* fields conn and connected, reconnectChan as the number of tokens in its  *)
(* one slot, the local attempts of handleReconnect, whether ctx is          *)
(* cancelled, and whether the controller can be reached (link).  conn is    *)
(* "nil", "open", "broken" (open for the agent, lost underneath) or         *)
(* "closed".                                                                *)

(* Largest max_reconnect_attempts of the configurations followed *)
MaxReconnect == 2

InitClient ==
    /\ Constructed
    /\ \E maxAttempts \in 0 .. MaxReconnect, link \in {"up", "down"} :
         call = [fn |-> "Client.Run", main |-> "connect", reader |-> "none",
                 conn |-> "nil", connected |-> FALSE, reconnectChan |-> 0,
                 attempts |-> 0, maxAttempts |-> maxAttempts, ctxDone |-> FALSE,
                 link |-> link]

(* The controller becomes unreachable; an open connection is lost *)
LinkLost ==
    /\ call.main # "exit"
    /\ call.link = "up"
    /\ call' = [call EXCEPT !.link = "down",
                            !.conn = IF @ = "open" THEN "broken" ELSE @]
    /\ UnchangedScheduler

(* The controller can be reached again; a lost connection stays lost *)
LinkRestored ==
    /\ call.main # "exit"
    /\ call.link = "down"
    /\ call' = [call EXCEPT !.link = "up"]
    /\ UnchangedScheduler

(* The controller closes the connection *)
PeerClose ==
    /\ call.main # "exit"
    /\ call.conn = "open"
    /\ call' = [call EXCEPT !.conn = "broken"]
    /\ UnchangedScheduler

(* SIGINT or SIGTERM: cancel() *)
ClientCancel ==
    /\ call.main # "exit"
    /\ ~call.ctxDone
    /\ call' = [call EXCEPT !.ctxDone = TRUE]
    /\ UnchangedScheduler

(* Client.connect under c.mu: the results, each with the error returned.    *)
(* The dial fails when the controller cannot be reached; a registration     *)
(* that cannot be written closes the connection; otherwise the reader and   *)
(* the writer are started.                                                  *)
connect(c) ==
    IF c.link = "up"
    THEN {<<"nil", [c EXCEPT !.conn = "open", !.connected = TRUE, !.reader = "reading"]>>,
          <<"err", [c EXCEPT !.conn = "closed", !.connected = FALSE]>>}
    ELSE {<<"err", c>>}

(* Run: the initial connection; a failure puts a token on reconnectChan *)
RunConnect ==
    /\ call.fn = "Client.Run" /\ call.main = "connect"
    /\ \E o \in connect(call) :
          call' = IF o[1] = "nil"
                  THEN [o[2] EXCEPT !.main = "select"]
                  ELSE [o[2] EXCEPT !.main = "select", !.reconnectChan = 1]
    /\ UnchangedScheduler

(* Client.disconnect *)
disconnect(c) == [c EXCEPT !.conn = "nil", !.connected = FALSE]

(* Run: case <-ctx.Done(): disconnect and return; the process ends *)
RunShutDown ==
    /\ call.fn = "Client.Run" /\ call.main = "select"
    /\ call.ctxDone
    /\ call' = [disconnect(call) EXCEPT !.main = "exit"]
    /\ UnchangedScheduler

(* Run: case <-c.reconnectChan: handleReconnect is entered, attempts := 0 *)
RunReconnect ==
    /\ call.fn = "Client.Run" /\ call.main = "select"
    /\ call.reconnectChan = 1
    /\ call' = [call EXCEPT !.reconnectChan = 0, !.main = "reconnect", !.attempts = 0]
    /\ UnchangedScheduler

(* maxAttempts > 0 && attempts >= maxAttempts *)
Exhausted(c) == c.maxAttempts > 0 /\ c.attempts >= c.maxAttempts

(* attempts++; with maxAttempts = 0 the counter is only logged, and is kept *)
(* at most MaxReconnect + 1 here                                            *)
NextAttempt(c) ==
    IF c.maxAttempts > 0 \/ c.attempts <= MaxReconnect THEN c.attempts + 1 ELSE c.attempts

(* handleReconnect: the head of the loop, down to time.Sleep *)
ReconnectLoop ==
    /\ call.fn = "Client.Run" /\ call.main = "reconnect"
    /\ call' = IF Exhausted(call) \/ call.ctxDone
               THEN [call EXCEPT !.main = "select"]
               ELSE [call EXCEPT !.main = "sleep", !.attempts = NextAttempt(call)]
    /\ UnchangedScheduler

(* A reconnection that gives up when an attempt fails *)
ConnectFailedReturn(c) == [c EXCEPT !.main = "select"]

(* handleReconnect: if err := c.connect(); err != nil { ...; continue } *)
ConnectFailed(c) == [c EXCEPT !.main = "reconnect"]

(* handleReconnect: the sleep is over, c.connect() *)
ReconnectConnect ==
    /\ call.fn = "Client.Run" /\ call.main = "sleep"
    /\ \E o \in connect(call) :
          call' = IF o[1] = "nil"
                  THEN [o[2] EXCEPT !.main = "select"]
                  ELSE ConnectFailed(o[2])
    /\ UnchangedScheduler

(* readMessages: ReadJSON returns an error on a lost or closed connection *)
ReadError ==
    /\ call.main # "exit"
    /\ call.reader = "reading"
    /\ call.conn # "open"
    /\ call' = [call EXCEPT !.reader = "disconnect"]
    /\ UnchangedScheduler

(* readMessages, deferred: c.disconnect() *)
ReaderDisconnect ==
    /\ call.main # "exit"
    /\ call.reader = "disconnect"
    /\ call' = [disconnect(call) EXCEPT !.reader = "signal"]
    /\ UnchangedScheduler

(* readMessages, deferred: c.reconnectChan <- struct{}{}, a slot being free *)
ReaderSignal ==
    /\ call.main # "exit"
    /\ call.reader = "signal"
    /\ call.reconnectChan = 0
    /\ call' = [call EXCEPT !.reconnectChan = 1, !.reader = "none"]
    /\ UnchangedScheduler

ClientMain ==
    \/ RunConnect
    \/ RunShutDown
    \/ RunReconnect
    \/ ReconnectLoop
    \/ ReconnectConnect

ClientReader ==
    \/ ReadError
    \/ ReaderDisconnect
    \/ ReaderSignal

NextClient ==
    \/ LinkLost
    \/ LinkRestored
    \/ PeerClose
    \/ ClientCancel
    \/ ClientMain
    \/ ClientReader

(* The goroutines of the agent run when they can; the network and the       *)
(* signal are free.  Run's select takes a case that stays ready.            *)
SpecClient ==
    /\ InitClient
    /\ [][NextClient]_vars
    /\ WF_vars(ClientMain)
    /\ WF_vars(ClientReader)

(* The agent holds a connection that is lost *)
ConnectionLost == call.conn = "broken" /\ call.reader = "reading"

(* The agent is in a connection attempt: the sleep before the dial, then    *)
(* connect                                                                  *)
Attempting == call.main = "sleep"

(* C28: the agent reconnects.  Whenever the connection is lost and the      *)
(* agent is not shutting down, it comes to a connection attempt unless it   *)
(* is shut down first; after a failed attempt it comes to another one       *)
(* unless it is shut down or max_reconnect_attempts (when positive) has     *)
(* been reached; and handleReconnect returns only with a connection made,   *)
(* on shutdown, or with that limit reached, so with the limit 0 the         *)
(* attempts go on until one succeeds.                                       *)
C28_AgentReconnects ==
    /\ (ConnectionLost /\ ~call.ctxDone) ~> (Attempting \/ call.ctxDone)
    /\ (call.main = "reconnect" /\ ~call.ctxDone /\ ~Exhausted(call))
          ~> (Attempting \/ call.ctxDone)
    /\ [][(call.main \in {"reconnect", "sleep"} /\ call'.main = "select")
             => \/ call'.connected /\ call'.reader = "reading"
                \/ call.ctxDone
                \/ Exhausted(call)]_vars

(* With no limit on the attempts, handleReconnect has made more attempts    *)
(* than any limit followed here and has returned with the agent connected   *)
C28_Witness ==
    /\ call.fn = "Client.Run"
    /\ call.maxAttempts = 0
    /\ call.attempts > MaxReconnect
    /\ call.main = "select"
    /\ call.connected
    /\ call.conn = "open"
    /\ ~call.ctxDone

----------------------------------------------------------------------------
(* A step in which rotation r sets the phase to ramping_up *)
SetsRampingUp(r) == rot[r].pc \in {"sleep", "rampUp"} /\ rot'[r].pc = "findStart"

----------------------------------------------------------------------------
(* C30: ramp-up does not block.  rampUpAgents leaves one start goroutine    *)
(* per worker to start and sends nothing itself; the rotation is then at    *)
(* its commit, which it can take whatever start goroutines are pending, and *)
(* no time passes before it has committed.  (The witness is the state the   *)
(* claim says is reachable.)                                                *)
C30_RampUpDoesNotBlock ==
    /\ [](\A r \in DOMAIN rot : rot[r].pc = "commit" => ENABLED RotCommit(r))
    /\ [][\A r \in DOMAIN rot :
             /\ (rot[r].pc = "findStart" /\ rot'[r].pc # "findStart") =>
                    /\ rot'[r].pc = "commit"
                    /\ \A a \in findAgentsToStart(maps[r]) :
                          \E t \in tasks' \ tasks :
                              t.kind = "start" /\ t.agent = a /\ t.r = r
                    /\ agentStatus' = agentStatus
             /\ now' # now => rot[r].pc \notin {"findStart", "commit"}]_vars

(* A worker is in the active allocations of a stable fleet, and its start   *)
(* command has not been sent: the goroutine that will send it has not run   *)
C30_Witness ==
    /\ Phase = "stable"
    /\ ActiveAgents \in DOMAIN rot
    /\ rot[ActiveAgents].pc = "done"
    /\ \E a \in ActiveKeys :
          /\ ActiveAlloc(a).CurrentCommand = NoCmd
          /\ \E t \in tasks :
                t.kind = "start" /\ t.agent = a /\ t.r = ActiveAgents

----------------------------------------------------------------------------
(* The adaptive loop over one interval between two rotations.  The call     *)
(* record holds what the loop reads: the phase, the active allocations      *)
(* (each at most the worker's max bandwidth, as allocateBandwidth caps      *)
(* them), the ticks left until NextRotation, and what it has done: the      *)
(* boost goroutines spawned, the boost commands delivered, and per worker   *)
(* the bandwidth commanded since the rotation (its start command first).    *)
(* An observation is a float64; here it is a multiple of 1/ObsGrid, held    *)
(* as its numerator.                                                        *)

ObsGrid == 2

MaxTicks == 2

(* AllocatedBW values, and observations in units of 1/ObsGrid *)
AdjustAllocs == {100, 400, 1000}

AdjustObs == {0, 50 * ObsGrid, 100 * ObsGrid - 1, 330 * ObsGrid}

AdjustPhases == {"stable", "ramping_up"}

(* The metrics aggregator holds the last report of some workers; the        *)
(* workers go on reporting the same throughput through the interval.        *)
InitAdjust ==
    /\ Constructed
    /\ \E active \in SUBSET Agents : \E alloc \in [active -> AdjustAllocs] :
         \E observed \in SUBSET Agents : \E metrics \in [observed -> AdjustObs] :
           \E phase \in AdjustPhases :
             \E remaining \in {0} \cup (BoostMinRemaining .. BoostMinRemaining + MaxTicks) :
               /\ \A a \in active : alloc[a] <= MaxBandwidth[a]
               /\ call = [fn |-> "evaluateAndAdjust", phase |-> phase, alloc |-> alloc,
                          metrics |-> metrics, remaining |-> remaining, ticks |-> 0,
                          rotating |-> FALSE, polled |-> FALSE, requested |-> {},
                          sent |-> {}, commanded |-> alloc]

(* int64(deficit) for targetBW - agentBW, agentBW = num / ObsGrid *)
Deficit(targetBW, num) == Trunc(targetBW * ObsGrid - num, ObsGrid)

(* adjustBandwidthIfNeeded without the test of the deficit percentage *)
BoostRequestsTolerance(phase, alloc, agg) ==
    IF phase # "stable" THEN {}
    ELSE {[agent |-> agentID, additionalBW |-> Deficit(alloc[agentID], agg[agentID]),
           target |-> alloc[agentID], current |-> agg[agentID]] :
            agentID \in {a \in DOMAIN alloc \cap DOMAIN agg :
                           agg[a] * 100 < alloc[a] * ObsGrid * (100 - TolerancePct)}}

(* The go statements of adjustBandwidthIfNeeded for the allocations alloc   *)
(* and the breakdown agg; target and current are the values it logs         *)
BoostRequests(phase, alloc, agg) ==
    IF phase # "stable" THEN {}
    ELSE {[agent |-> agentID, additionalBW |-> Deficit(alloc[agentID], agg[agentID]),
           target |-> alloc[agentID], current |-> agg[agentID]] :
            agentID \in {a \in DOMAIN alloc \cap DOMAIN agg :
                           Underperforming(alloc[a] * ObsGrid, agg[a])}}

(* A ticker period passes and evaluateAndAdjust runs: the deadline has      *)
(* passed when no time remains, and then only the rotation is launched;     *)
(* otherwise GetAggregated is read and adjustBandwidthIfNeeded runs         *)
AdjustTick ==
    /\ call.fn = "evaluateAndAdjust"
    /\ ~call.rotating
    /\ call.ticks < MaxTicks
    /\ call.requested = {}
    /\ LET remaining == call.remaining - 1
       IN  IF remaining < 0
           THEN call' = [call EXCEPT !.remaining = remaining, !.ticks = @ + 1,
                                     !.rotating = TRUE, !.polled = FALSE]
           ELSE call' = [call EXCEPT !.remaining = remaining, !.ticks = @ + 1,
                                     !.polled = TRUE,
                                     !.requested = BoostRequests(call.phase, call.alloc,
                                                                 call.metrics)]
    /\ UnchangedScheduler

(* boostAgentBandwidth, the whole goroutine: the clamp, the return when     *)
(* under 30 s remain, and SendToAgent, which fails without a connection     *)
boostAgentBandwidth(b) ==
    /\ call.fn = "evaluateAndAdjust"
    /\ b \in call.requested
    /\ LET additionalBW == Clamp64(b.additionalBW, BoostMin, BoostMax)
       IN  IF call.remaining < BoostMinRemaining
           THEN call' = [call EXCEPT !.requested = @ \ {b}]
           ELSE \E err \in {"ok", "notconnected"} :
                   IF err # "ok"
                   THEN call' = [call EXCEPT !.requested = @ \ {b}]
                   ELSE call' = [call EXCEPT
                                   !.requested = @ \ {b},
                                   !.sent = @ \cup {[agent |-> b.agent, Bandwidth |-> additionalBW,
                                                     target |-> b.target, current |-> b.current]},
                                   !.commanded[b.agent] = @ + additionalBW]
    /\ UnchangedScheduler

NextAdjust ==
    \/ AdjustTick
    \/ \E b \in call.requested : boostAgentBandwidth(b)

SpecAdjust == InitAdjust /\ [][NextAdjust]_vars

----------------------------------------------------------------------------
(* A step that is an evaluation tick of the adaptive loop *)
AdjustTicked == call.fn = "evaluateAndAdjust" /\ call'.ticks = call.ticks + 1

(* The claim's condition on worker a: an observation exists, it is below    *)
(* allocation x (1 - tolerance), and the shortfall is strictly more than    *)
(* 20% of the allocation (observations in units of 1/ObsGrid)               *)
ShortfallSignificant(a) ==
    /\ a \in DOMAIN call.metrics
    /\ call.metrics[a] * 100 < call.alloc[a] * ObsGrid * (100 - TolerancePct)
    /\ (call.alloc[a] * ObsGrid - call.metrics[a]) * 100
          > DeficitPercentMin * call.alloc[a] * ObsGrid

(* The shortfall of a delivered boost command, in units of 1/ObsGrid *)
Shortfall(c) == c.target * ObsGrid - c.current

(* C31: on every evaluation tick in the stable phase a boost is requested   *)
(* for an active worker exactly when an observation exists for it, the      *)
(* observation is below allocation x (1 - tolerance) and the shortfall is   *)
(* more than 20% of the allocation; and the bandwidth of every boost        *)
(* command sent is the shortfall clamped to [100, 500].                     *)
C31_BoostIffShortfall ==
    /\ [][(AdjustTicked /\ call.phase = "stable") =>
             \A a \in DOMAIN call.alloc :
                 (\E b \in call'.requested : b.agent = a) <=> ShortfallSignificant(a)]_vars
    /\ [](call.fn = "evaluateAndAdjust" =>
             \A c \in call.sent :
                 c.Bandwidth * ObsGrid =
                     Clamp64(Shortfall(c), BoostMin * ObsGrid, BoostMax * ObsGrid))

(* C31, amended: on every evaluation tick in the stable phase on which the  *)
(* rotation deadline has not passed, a boost is requested for an active     *)
(* worker exactly when the claim's condition holds, and on a tick where the *)
(* deadline has passed none is requested; the bandwidth of every boost      *)
(* command sent is the shortfall cut to a whole number of units (the        *)
(* int64 conversion), clamped to [100, 500].                                *)
C31_BoostIffShortfallUnlessDue ==
    /\ [][(AdjustTicked /\ call.phase = "stable") =>
             IF call'.rotating
             THEN call'.requested = {}
             ELSE \A a \in DOMAIN call.alloc :
                     (\E b \in call'.requested : b.agent = a) <=> ShortfallSignificant(a)]_vars
    /\ [](call.fn = "evaluateAndAdjust" =>
             \A c \in call.sent :
                 c.Bandwidth = Clamp64(Trunc(Shortfall(c), ObsGrid), BoostMin, BoostMax))

(* A stable tick has requested a boost for a worker whose shortfall is not  *)
(* a whole number, and the command was delivered with a bandwidth inside    *)
(* the clamp's range                                                        *)
C31_Witness ==
    /\ call.fn = "evaluateAndAdjust"
    /\ call.phase = "stable"
    /\ call.polled
    /\ \E c \in call.sent :
          /\ Shortfall(c) % ObsGrid # 0
          /\ c.Bandwidth > BoostMin
          /\ c.Bandwidth < BoostMax
          /\ c.agent \in DOMAIN call.alloc

----------------------------------------------------------------------------
(* C40: between two consecutive rotations the bandwidth commanded to one    *)
(* worker, that of its start command (its allocation) plus those of all     *)
(* boost commands delivered to it since, never exceeds the worker's         *)
(* declared max bandwidth.                                                  *)
C40_CommandedWithinCapacity ==
    call.fn = "evaluateAndAdjust" =>
        \A a \in DOMAIN call.commanded : call.commanded[a] <= MaxBandwidth[a]

----------------------------------------------------------------------------
(* A step of the scheduler that is an evaluation tick *)
Ticked == tickDue /\ ~tickDue' /\ ~exited

(* C32: an evaluation tick on which the next-rotation deadline has passed   *)
(* only launches the rotation pipeline as a task of its own, at its entry:  *)
(* the last-observed aggregate throughput (written at every poll of the     *)
(* metrics), the boost goroutines, the rest of the fleet state, the         *)
(* statuses and the other rotations are as before.  Every other tick        *)
(* launches no rotation, and no other step of the scheduler launches one.   *)
C32_DueTickOnlyLaunchesRotation ==
    [][/\ (Ticked /\ now > NextRotation) =>
             /\ rot' = Append(rot, NewRotation)
             /\ CurrentTotalBW' = CurrentTotalBW
             /\ boosts' = boosts
             /\ UNCHANGED <<Phase, ActiveAgents, NextRotation, LastRotation,
                            RotationCount, maps, agentStatus, tasks, clients>>
       /\ (Ticked /\ ~(now > NextRotation)) => rot' = rot
       /\ ~Ticked => Len(rot') = Len(rot)]_vars

(* A tick has just launched a rotation while the fleet was stable with a    *)
(* connected active worker, whose throughput a poll would have found short  *)
C32_Witness ==
    /\ ~tickDue
    /\ now > NextRotation
    /\ Phase = "stable"
    /\ rot[Len(rot)].pc = "begin"
    /\ Len(rot) > 1
    /\ boosts = {}
    /\ \E a \in ActiveKeys \cap clients :
          \A obs \in BWObs : Underperforming(ActiveAlloc(a).AllocatedBW, obs)

----------------------------------------------------------------------------
(* The first idx whose cumulative weight exceeds the draw (r2 in half       *)
(* units); there is one for every draw below the total weight               *)
FirstExceeding(availableWeights, r2) ==
    LET hit == {idx \in 0 .. Len(availableWeights) - 1 :
                  2 * SumSeq(SubSeq(availableWeights, 1, idx + 1)) > r2}
    IN  CHOOSE idx \in hit : \A j \in hit : idx <= j

(* A pass of the sampling loop with positive total weight *)
WeightedPass ==
    /\ call.fn = "WeightedRandomSelection"
    /\ call.pc = "loop"
    /\ call'.i = call.i + 1
    /\ SumSeq(call.availableWeights) > 0

(* C33: in each pass of the sampling loop with positive total weight the    *)
(* candidate chosen is, for a draw in [0, total), the first one whose       *)
(* cumulative weight exceeds the draw; so a candidate of weight zero is     *)
(* never chosen while a candidate of positive weight remains.               *)
C33_FirstExceedingDraw ==
    [][WeightedPass =>
          LET chosen == call'.selected[Len(call'.selected)]
          IN  /\ \E r2 \in RandTimes(SumSeq(call.availableWeights)) :
                    call.available[FirstExceeding(call.availableWeights, r2) + 1] = chosen
              /\ call.weights[chosen + 1] > 0]_vars

----------------------------------------------------------------------------
(* rampDownAgents with bandwidth.CalculateStagger followed through one      *)
(* call, in exact arithmetic: totalDuration is a whole number of seconds,   *)
(* rand.Float64() is k/RandGrid, and a delay is held as its numerator over  *)
(* StaggerUnit(count), so that                                              *)
(*   i*base + base*0.25*(2k/RandGrid - 1)                                   *)
(*     = totalDuration*(4*i*RandGrid + 2k - RandGrid)/(4*count*RandGrid).   *)

MaxStagger == 3

MaxDuration == 2

StaggerUnit(count) == 4 * count * RandGrid

(* The loop body with the index taken from 1 *)
StaggerDelayFromOne(i, count, totalDuration, k) ==
    LET delay == totalDuration * (4 * (i + 1) * RandGrid + 2 * k - RandGrid)
    IN  IF delay < 0 THEN 0 ELSE delay

(* The loop body of CalculateStagger for index i and the draw k/RandGrid *)
StaggerDelay(i, count, totalDuration, k) ==
    LET delay == totalDuration * (4 * i * RandGrid + 2 * k - RandGrid)
    IN  IF delay < 0 THEN 0 ELSE delay

InitStagger ==
    /\ Constructed
    /\ \E count \in 1 .. MaxStagger : \E totalDuration \in 0 .. MaxDuration :
         call = [fn |-> "rampDownAgents", pc |-> "loop", count |-> count,
                 totalDuration |-> totalDuration, i |-> 0, delays |-> <<>>]

(* One pass of the loop of CalculateStagger *)
StaggerPass ==
    /\ call.fn = "rampDownAgents" /\ call.pc = "loop"
    /\ call.i < call.count
    /\ \E k \in 0 .. RandGrid - 1 :
         call' = [call EXCEPT
                    !.delays = Append(@, StaggerDelay(call.i, call.count,
                                                      call.totalDuration, k)),
                    !.i = @ + 1]
    /\ UnchangedScheduler

(* rampDownAgents has the delays: it spawns a goroutine per id that sleeps  *)
(* its delay before stopAgent, then sleeps the ramp-down duration itself    *)
StaggerSpawn ==
    /\ call.fn = "rampDownAgents" /\ call.pc = "loop"
    /\ call.i = call.count
    /\ call' = [call EXCEPT !.pc = "sleep"]
    /\ UnchangedScheduler

(* The sleep is over: rampDownAgents returns and performRotation goes on    *)
(* to ramping_up                                                            *)
StaggerReturn ==
    /\ call.fn = "rampDownAgents" /\ call.pc = "sleep"
    /\ call' = [call EXCEPT !.pc = "return"]
    /\ UnchangedScheduler

NextStagger ==
    \/ StaggerPass
    \/ StaggerSpawn
    \/ StaggerReturn

SpecStagger == InitStagger /\ [][NextStagger]_vars

(* C34: for every count >= 1 and total duration T >= 0 every delay of       *)
(* CalculateStagger lies in [0, T), so every staggered stop is due before   *)
(* the ramp-down wait of length T ends.                                     *)
C34_DelaysBelowDuration ==
    call.fn = "rampDownAgents" =>
        \A j \in DOMAIN call.delays :
            /\ call.delays[j] >= 0
            /\ call.delays[j] < call.totalDuration * StaggerUnit(call.count)

(* C34, amended: for every count >= 1 and total duration T > 0 every delay  *)
(* lies in [0, T), so every staggered stop is due before the wait of length *)
(* T ends; for T = 0 every delay is 0, the instant the wait ends.           *)
C34_DelaysBelowPositiveDuration ==
    call.fn = "rampDownAgents" =>
        \A j \in DOMAIN call.delays :
            IF call.totalDuration > 0
            THEN /\ call.delays[j] >= 0
                 /\ call.delays[j] < call.totalDuration * StaggerUnit(call.count)
            ELSE call.delays[j] = 0

(* The wait of a ramp-down of several workers has ended, and the last stop  *)
(* was delayed by more than its share of the duration                       *)
C34_Witness ==
    /\ call.fn = "rampDownAgents"
    /\ call.pc = "return"
    /\ call.count > 1
    /\ call.totalDuration > 0
    /\ call.delays[call.count] > call.totalDuration * 4 * RandGrid * (call.count - 1)

----------------------------------------------------------------------------
(* The agent's Executor (internal/agent/executor.go).  The call record      *)
(* holds activeJobs (the sync.Map from command id to job), the jobs ever    *)
(* created (cancelled: Job.Cancel was called; ended: the goroutine of       *)
(* runMultiThreadDownload has returned), the goroutines that call the       *)
(* Executor, the number of calls that have returned and the last one's      *)
(* result.  The Client calls it from processMessage on its reader           *)
(* goroutine, one message at a time.                                        *)

MaxOps == 4

CmdIds == {"c1", "c2"}

(* StopCommand.CommandID: a command id or the empty id *)
StopIds == CmdIds \cup {""}

Callers == {1, 2}

RemoveKey(f, k) == [x \in DOMAIN f \ {k} |-> f[x]]

InitExecutor ==
    /\ Constructed
    /\ call = [fn |-> "Executor", activeJobs |-> <<>>, jobs |-> <<>>,
               proc |-> [g \in Callers |-> [pc |-> "idle", id |-> ""]],
               ops |-> 0, last |-> [op |-> "", id |-> "", err |-> ""]]

(* ExecuteDownload up to e.activeJobs.Load: the error when the id is found *)
ExecuteDownloadLoad(g, id) ==
    /\ call.fn = "Executor"
    /\ call.proc[g].pc = "idle"
    /\ call.ops < MaxOps
    /\ IF id \in DOMAIN call.activeJobs
       THEN call' = [call EXCEPT !.ops = @ + 1,
                                 !.last = [op |-> "ExecuteDownload", id |-> id,
                                           err |-> "already running"]]
       ELSE call' = [call EXCEPT !.proc[g] = [pc |-> "store", id |-> id]]
    /\ UnchangedScheduler

(* ExecuteDownload from the new Job on: e.activeJobs.Store, RegisterJob,    *)
(* go e.runMultiThreadDownload, return nil                                  *)
ExecuteDownloadStore(g) ==
    /\ call.fn = "Executor"
    /\ call.proc[g].pc = "store"
    /\ LET id == call.proc[g].id
           job == [id |-> id, cancelled |-> FALSE, ended |-> FALSE]
       IN  call' = [call EXCEPT
                      !.ops = @ + 1,
                      !.jobs = Append(@, job),
                      !.activeJobs = (id :> Len(call.jobs) + 1) @@ @,
                      !.proc[g] = [pc |-> "idle", id |-> ""],
                      !.last = [op |-> "ExecuteDownload", id |-> id, err |-> ""]]
    /\ UnchangedScheduler

(* The jobs stopJob is called on *)
StoppedFirst(commandID) ==
    IF commandID = ""
    THEN IF call.activeJobs = <<>> THEN {}
         ELSE {call.activeJobs[CHOOSE k \in DOMAIN call.activeJobs : TRUE]}
    ELSE IF commandID \in DOMAIN call.activeJobs
         THEN {call.activeJobs[commandID]} ELSE {}

(* Executor.Stop: the jobs stopJob is called on, every job of activeJobs    *)
(* for the empty id and the job found for another id                        *)
Stopped(commandID) ==
    IF commandID = ""
    THEN {call.activeJobs[k] : k \in DOMAIN call.activeJobs}
    ELSE IF commandID \in DOMAIN call.activeJobs
         THEN {call.activeJobs[commandID]} ELSE {}

(* Executor.Stop *)
Stop(g, commandID) ==
    /\ call.fn = "Executor"
    /\ call.proc[g].pc = "idle"
    /\ call.ops < MaxOps
    /\ call' = [call EXCEPT
                  !.ops = @ + 1,
                  !.jobs = [j \in DOMAIN call.jobs |->
                              IF j \in Stopped(commandID)
                              THEN [call.jobs[j] EXCEPT !.cancelled = TRUE]
                              ELSE call.jobs[j]],
                  !.last = [op |-> "Stop", id |-> commandID,
                            err |-> IF commandID # "" /\ commandID \notin DOMAIN call.activeJobs
                                    THEN "not found" ELSE ""]]
    /\ UnchangedScheduler

(* runMultiThreadDownload returns once its context is cancelled and its     *)
(* threads are done: the deferred e.activeJobs.Delete(cmd.CommandID)        *)
JobEnd(j) ==
    /\ call.fn = "Executor"
    /\ call.jobs[j].cancelled
    /\ ~call.jobs[j].ended
    /\ call' = [call EXCEPT !.jobs[j].ended = TRUE,
                            !.activeJobs = RemoveKey(@, call.jobs[j].id)]
    /\ UnchangedScheduler

(* The agent: the reader goroutine processes the commands one by one *)
NextExecutor ==
    \/ \E id \in CmdIds : ExecuteDownloadLoad(1, id)
    \/ ExecuteDownloadStore(1)
    \/ \E commandID \in StopIds : Stop(1, commandID)
    \/ \E j \in DOMAIN call.jobs : JobEnd(j)

SpecExecutor == InitExecutor /\ [][NextExecutor]_vars

(* The Executor called from two goroutines at once *)
NextExecutorRace ==
    \/ \E g \in Callers : \E id \in CmdIds : ExecuteDownloadLoad(g, id)
    \/ \E g \in Callers : ExecuteDownloadStore(g)
    \/ \E g \in Callers : \E commandID \in StopIds : Stop(g, commandID)
    \/ \E j \in DOMAIN call.jobs : JobEnd(j)

SpecExecutorRace == InitExecutor /\ [][NextExecutorRace]_vars

(* The jobs that are active: created and not ended *)
Running == {j \in DOMAIN call.jobs : ~call.jobs[j].ended}

(* A step that processes a stop command with the id commandID *)
StopProcessed(commandID) ==
    /\ call.fn = "Executor"
    /\ call'.ops = call.ops + 1
    /\ call'.last.op = "Stop"
    /\ call'.last.id = commandID

(* The jobs a step cancels *)
NewlyCancelled ==
    {j \in DOMAIN call.jobs : ~call.jobs[j].cancelled /\ call'.jobs[j].cancelled}

(* C35: on the agent a stop command with the empty id cancels every job     *)
(* that is active when it is processed; one with another id cancels the     *)
(* job with that id and no other; and a stop for an id that is not active   *)
(* returns the not-found error and cancels nothing.  No stop creates or     *)
(* removes a job.                                                           *)
C35_StopCancels ==
    [][\A commandID \in StopIds :
          StopProcessed(commandID) =>
             /\ Len(call'.jobs) = Len(call.jobs)
             /\ call'.activeJobs = call.activeJobs
             /\ IF commandID = ""
                THEN /\ \A j \in Running : call'.jobs[j].cancelled
                     /\ call'.last.err = ""
                ELSE IF \E j \in Running : call.jobs[j].id = commandID
                THEN /\ \A j \in Running :
                            call.jobs[j].id = commandID => call'.jobs[j].cancelled
                     /\ \A j \in NewlyCancelled : call.jobs[j].id = commandID
                     /\ call'.last.err = ""
                ELSE /\ NewlyCancelled = {}
                     /\ call'.last.err = "not found"]_vars

(* An empty-id stop has been processed while two jobs were active, and both *)
(* are cancelled and not yet ended                                          *)
C35_Witness ==
    /\ call.fn = "Executor"
    /\ call.last.op = "Stop"
    /\ call.last.id = ""
    /\ Cardinality(Running) = 2
    /\ \A j \in Running : call.jobs[j].cancelled

----------------------------------------------------------------------------
(* A step in which a call of ExecuteDownload for the id returns *)
DownloadProcessed(id) ==
    /\ call.fn = "Executor"
    /\ call'.ops = call.ops + 1
    /\ call'.last.op = "ExecuteDownload"
    /\ call'.last.id = id

(* C36: ExecuteDownload for a command id that is already active returns an  *)
(* error and leaves the existing job and the set of active jobs as they     *)
(* are, and at most one job per command id is active at any time, also      *)
(* when two download commands with the same id are processed at once.       *)
C36_OneJobPerId ==
    /\ [](call.fn = "Executor" =>
             \A id \in CmdIds : Cardinality({j \in Running : call.jobs[j].id = id}) <= 1)
    /\ [][\A id \in CmdIds :
             (DownloadProcessed(id) /\ \E j \in Running : call.jobs[j].id = id) =>
                 /\ call'.last.err = "already running"
                 /\ call'.jobs = call.jobs
                 /\ call'.activeJobs = call.activeJobs]_vars

----------------------------------------------------------------------------
(* The steps of performRotation that read the fleet state: the selection    *)
(* (isRegionOverused and findAgentsToStop read the active map), the         *)
(* start-set computation (findAgentsToStart reads the active map) and the   *)
(* commit (RotationCount++)                                                 *)
RotationReadsFleet ==
    \E r \in DOMAIN rot : RotSelect(r) \/ RotFindStart(r) \/ RotCommit(r)

(* The steps whose reads of the fleet state are made with s.mu held:        *)
(* between Lock and Unlock, or between RLock and RUnlock (isRegionOverused  *)
(* and findAgentsToStop in the selection, the read of NextRotation in       *)
(* boostAgentBandwidth)                                                     *)
ReadsUnderLock ==
    \/ ExclusiveSection
    \/ \E r \in DOMAIN rot : RotSelect(r)
    \/ \E b \in boosts : BoostCheck(b)

(* C37: every read of the fleet state by the rotation pipeline, the         *)
(* start-set computation of findAgentsToStart included, is made while the   *)
(* scheduler lock is held, so that none runs concurrently with a write by   *)
(* OnAgentDisconnect, by the commit of another rotation or by a tick.       *)
C37_RotationReadsHoldLock == [][RotationReadsFleet => ReadsUnderLock]_vars

----------------------------------------------------------------------------
(* The scheduler's mutex s.mu (a sync.RWMutex) and the goroutines that use  *)
(* it.  A goroutine is the sequence of its operations on the mutex and of   *)
(* the operations in which it waits or hands a message over, in the order   *)
(* of the code; when it is through, the next goroutine of its kind starts   *)
(* over.  "Idle" stands for not having been started or called yet, "Sleep"  *)
(* for time.Sleep, "Enqueue" for Server.SendToAgent, which puts the message *)
(* on a buffered channel or returns an error and never waits.  The call     *)
(* record holds each goroutine's position, the writer holding the mutex     *)
(* and the readers holding it.                                              *)

(* Run's loop: the ticker, then evaluateAndAdjust, whose                    *)
(* adjustBandwidthIfNeeded runs the boosts in this goroutine                *)
evaluateAndAdjustBoostInline == <<"Idle", "Lock", "RLock", "RUnlock", "Enqueue", "Unlock">>

(* Run's loop: the ticker, then evaluateAndAdjust (adjustBandwidthIfNeeded  *)
(* and `go` statements between Lock and the deferred Unlock)                *)
evaluateAndAdjustOps == <<"Idle", "Lock", "Unlock">>

(* performRotation: the phase, isRegionOverused from selectAgents,          *)
(* findAgentsToStop, the sleep of rampDownAgents, the phase, the commit,    *)
(* scheduleNextRotation                                                     *)
performRotationOps ==
    <<"Idle", "Lock", "Unlock", "RLock", "RUnlock", "Lock", "Unlock", "Sleep",
      "Lock", "Unlock", "Lock", "Unlock", "Lock", "Unlock">>

(* boostAgentBandwidth *)
boostAgentBandwidthOps == <<"Idle", "RLock", "RUnlock", "Enqueue">>

(* The goroutine of rampUpAgents: the staggered sleep, then startAgent *)
startAgentOps == <<"Idle", "Sleep", "RLock", "RUnlock", "Enqueue">>

(* GetState, called by the API handlers *)
GetStateOps == <<"Idle", "RLock", "RUnlock">>

(* OnAgentDisconnect, called by the transport *)
OnAgentDisconnectOps == <<"Idle", "Lock", "Unlock">>

(* stopAllAgents: stopAgent for an active agent under the read lock *)
stopAllAgentsOps == <<"Idle", "RLock", "Enqueue", "RUnlock">>

Goroutines ==
    {"tick", "rotation", "boost", "start", "getState", "disconnect", "shutdown"}

Ops(g) ==
    CASE g = "tick" -> evaluateAndAdjustOps
      [] g = "rotation" -> performRotationOps
      [] g = "boost" -> boostAgentBandwidthOps
      [] g = "start" -> startAgentOps
      [] g = "getState" -> GetStateOps
      [] g = "disconnect" -> OnAgentDisconnectOps
      [] g = "shutdown" -> stopAllAgentsOps

(* The operation goroutine g is at *)
Op(g) == Ops(g)[call.pc[g]]

(* The position after the current operation *)
After(g) == IF call.pc[g] = Len(Ops(g)) THEN 1 ELSE call.pc[g] + 1

InitMutex ==
    /\ Constructed
    /\ call = [fn |-> "mu", pc |-> [g \in Goroutines |-> 1], w |-> "", r |-> {}]

(* The goroutine is started, or the method is called *)
MuStart(g) ==
    /\ call.fn = "mu"
    /\ Op(g) = "Idle"
    /\ call' = [call EXCEPT !.pc[g] = After(g)]
    /\ UnchangedScheduler

(* s.mu.Lock() returns: no writer and no reader holds the mutex *)
MuLock(g) ==
    /\ call.fn = "mu"
    /\ Op(g) = "Lock"
    /\ call.w = ""
    /\ call.r = {}
    /\ call' = [call EXCEPT !.pc[g] = After(g), !.w = g]
    /\ UnchangedScheduler

(* s.mu.RLock() returns: no writer holds the mutex and none is blocked in   *)
(* Lock (a blocked Lock keeps new readers out)                              *)
MuRLock(g) ==
    /\ call.fn = "mu"
    /\ Op(g) = "RLock"
    /\ call.w = ""
    /\ \A h \in Goroutines : Op(h) # "Lock"
    /\ call' = [call EXCEPT !.pc[g] = After(g), !.r = @ \cup {g}]
    /\ UnchangedScheduler

(* s.mu.Unlock(): the readers blocked in RLock are let in *)
MuUnlock(g) ==
    /\ call.fn = "mu"
    /\ Op(g) = "Unlock"
    /\ LET admitted == {h \in Goroutines : Op(h) = "RLock"}
       IN  call' = [call EXCEPT
                      !.pc = [h \in Goroutines |->
                                IF h = g \/ h \in admitted THEN After(h) ELSE call.pc[h]],
                      !.w = "",
                      !.r = admitted]
    /\ UnchangedScheduler

(* s.mu.RUnlock() *)
MuRUnlock(g) ==
    /\ call.fn = "mu"
    /\ Op(g) = "RUnlock"
    /\ call' = [call EXCEPT !.pc[g] = After(g), !.r = @ \ {g}]
    /\ UnchangedScheduler

(* The sleep is over, or SendToAgent has returned *)
MuPass(g) ==
    /\ call.fn = "mu"
    /\ Op(g) \in {"Sleep", "Enqueue"}
    /\ call' = [call EXCEPT !.pc[g] = After(g)]
    /\ UnchangedScheduler

(* The steps a goroutine takes by itself once it runs; of Lock and RLock    *)
(* only RLock, which stays possible until a writer comes                    *)
MuRun(g) == MuUnlock(g) \/ MuRUnlock(g) \/ MuPass(g) \/ MuRLock(g)

(* The goroutines that take the mutex exclusively *)
Writers == {g \in Goroutines : \E i \in DOMAIN Ops(g) : Ops(g)[i] = "Lock"}

NextMutex ==
    \/ \E g \in Goroutines : MuStart(g)
    \/ \E g \in Goroutines : MuLock(g)
    \/ \E g \in Goroutines : MuRLock(g)
    \/ \E g \in Goroutines : MuUnlock(g)
    \/ \E g \in Goroutines : MuRUnlock(g)
    \/ \E g \in Goroutines : MuPass(g)

(* A running goroutine is scheduled, and the mutex serves its waiters: a    *)
(* Lock that can return again and again does return (sync.Mutex hands the   *)
(* lock to a waiter that has waited long)                                   *)
SpecMutex ==
    /\ InitMutex
    /\ [][NextMutex]_vars
    /\ \A g \in Goroutines : WF_vars(MuRun(g))
    /\ \A g \in Writers : SF_vars(MuLock(g))

(* Goroutine g holds the mutex *)
Holds(g) == call.w = g \/ g \in call.r

(* C38: the scheduler lock never deadlocks.  No goroutine calls Lock or     *)
(* RLock while it holds the mutex; a goroutine that holds it is never in a  *)
(* sleep; and every goroutine blocked in Lock or RLock, a tick, a rotation, *)
(* a boost, a start, GetState, a disconnect callback or stopAllAgents,      *)
(* eventually gets past it.                                                 *)
C38_LockNeverDeadlocks ==
    /\ [](call.fn = "mu" =>
             \A g \in Goroutines :
                 Holds(g) => Op(g) \notin {"Lock", "RLock", "Sleep", "Idle"})
    /\ \A g \in Goroutines :
          (call.fn = "mu" /\ Op(g) \in {"Lock", "RLock"}) ~> Holds(g)

(* A tick, a rotation and a disconnect callback are blocked in Lock while   *)
(* GetState and stopAllAgents hold the read lock and a boost is kept out    *)
C38_Witness ==
    /\ call.fn = "mu"
    /\ Op("tick") = "Lock"
    /\ Op("rotation") = "Lock"
    /\ Op("disconnect") = "Lock"
    /\ {"getState", "shutdown"} \subseteq call.r
    /\ Op("boost") = "RLock"

----------------------------------------------------------------------------
(* The server's connection table with the connections told apart.  The call *)
(* record holds the Clients made by handleWebSocket (AgentID is empty until *)
(* the registration; open: handleClient has not returned), s.clients (the   *)
(* sync.Map from agent id to Client, 0 for no entry), the keys of the       *)
(* scheduler's active allocations, and the entry checkStaleClients is at.   *)

NoStale == [key |-> "", client |-> 0]

InitServer ==
    /\ Constructed
    /\ call = [fn |-> "Server", conn |-> <<>>, clients |-> [a \in Agents |-> 0],
               active |-> {}, stale |-> NoStale]

(* handleWebSocket: a Client for the upgraded connection, go handleClient *)
ConnAccept ==
    /\ call.fn = "Server"
    /\ Len(call.conn) < MaxConns
    /\ call' = [call EXCEPT !.conn = Append(@, [AgentID |-> "", open |-> TRUE])]
    /\ UnchangedScheduler

(* handleRegister: client.AgentID is set and the Client stored under it *)
ConnRegister(k, a) ==
    /\ call.fn = "Server"
    /\ call.conn[k].open
    /\ call.conn[k].AgentID = ""
    /\ call' = [call EXCEPT !.conn[k].AgentID = a, !.clients[a] = k]
    /\ UnchangedScheduler

(* The deferred function of handleClient: s.clients.Delete(client.AgentID), *)
(* OnAgentDisconnect(client.AgentID), for a registered connection           *)
Cleanup(c, k) ==
    LET a == c.conn[k].AgentID
    IN  IF a = ""
        THEN [c EXCEPT !.conn[k].open = FALSE]
        ELSE [c EXCEPT !.conn[k].open = FALSE, !.clients[a] = 0, !.active = @ \ {a}]

(* handleClient: ReadJSON fails (the peer or checkStaleClients closed the   *)
(* connection, or the network did) and the handler returns                  *)
ConnTeardown(k) ==
    /\ call.fn = "Server"
    /\ call.conn[k].open
    /\ call' = Cleanup(call, k)
    /\ UnchangedScheduler

(* checkStaleClients: Range calls back with an entry not seen for 120 s *)
StaleFound(a) ==
    /\ call.fn = "Server"
    /\ call.stale = NoStale
    /\ call.clients[a] # 0
    /\ call' = [call EXCEPT !.stale = [key |-> a, client |-> call.clients[a]]]
    /\ UnchangedScheduler

(* checkStaleClients: client.Conn.Close(); s.clients.Delete(key) *)
StaleRemove ==
    /\ call.fn = "Server"
    /\ call.stale # NoStale
    /\ call' = [call EXCEPT !.clients[call.stale.key] = 0, !.stale = NoStale]
    /\ UnchangedScheduler

(* The commit of a rotation that selected the connected workers S *)
ServerCommit(S) ==
    /\ call.fn = "Server"
    /\ S # call.active
    /\ \A a \in S : call.clients[a] # 0
    /\ call' = [call EXCEPT !.active = S]
    /\ UnchangedScheduler

NextServer ==
    \/ ConnAccept
    \/ \E k \in DOMAIN call.conn : \E a \in Agents : ConnRegister(k, a)
    \/ \E k \in DOMAIN call.conn : ConnTeardown(k)
    \/ \E a \in Agents : StaleFound(a)
    \/ StaleRemove
    \/ \E S \in SUBSET Agents : ServerCommit(S)

SpecServer == InitServer /\ [][NextServer]_vars

(* A step in which handleClient returns for connection k *)
TornDown(k) == call.fn = "Server" /\ call.conn[k].open /\ ~call'.conn[k].open

(* Worker a is registered on an open connection other than k *)
RegisteredElsewhere(a, k) ==
    /\ call.clients[a] \notin {0, k}
    /\ call.conn[call.clients[a]].open

(* C39: when a worker has registered on a new connection while an older     *)
(* connection with the same id is torn down, the teardown of the old one,   *)
(* by handleClient's deferred cleanup or by checkStaleClients, leaves the   *)
(* new connection's entry in the connected set and leaves the worker in     *)
(* the active allocations.                                                  *)
C39_TeardownSparesNewConnection ==
    [][\A a \in Agents :
          /\ \A k \in DOMAIN call.conn :
                (TornDown(k) /\ call.conn[k].AgentID = a /\ RegisteredElsewhere(a, k)) =>
                    /\ call'.clients[a] = call.clients[a]
                    /\ a \in call.active => a \in call'.active
          /\ (/\ call.fn = "Server"
              /\ call.stale.key = a
              /\ call'.stale = NoStale
              /\ RegisteredElsewhere(a, call.stale.client)) =>
                 call'.clients[a] = call.clients[a]]_vars

====
